---- MODULE Spec2Model ----
(***************************************************************************)
(* A model of the ircodecs integer-sequence codecs: the bit-level array    *)
(* reader/writer (bitutils), the BitByteArray buffer, and the Gaps,        *)
(* Variable-Byte, Unary, Elias-Gamma, Simple-16, Bit-Packing, PForDelta    *)
(* and Elias-Fano codecs.  Every codec function is an operator that        *)
(* computes what the Python code computes; each family has its own         *)
(* specification (SpecBits, SpecBBA, ...) whose initial states draw the    *)
(* inputs from bounded sets and whose actions apply the functions.         *)
(*                                                                         *)
(* Numbers.  The byte-oriented codecs work on TLC integers; Python's       *)
(* n >> k, n << k and n & (2^k - 1) are n \div 2^k, n * 2^k and n % 2^k    *)
(* (floor division and non-negative remainder, as in Python, also for      *)
(* negative n).  bitutils, Elias-Gamma, Simple-16, Bit-Packing and         *)
(* PForDelta handle values up to 2^32 - 1, beyond TLC's integers, so there *)
(* a Python int is modelled as the set of the positions of its one bits    *)
(* ("Big"): the representation is unbounded, like Python's int.            *)
(***************************************************************************)
EXTENDS Integers, Sequences, FiniteSets, TLC

VARIABLES
    pc,           \* position of the caller: which call has been made
    numbers,      \* the caller's input list
    codes,        \* per-number encode results (single-number encoders)
    encoded,      \* the encoded buffer (bytes or 32-bit words)
    padding,      \* padding returned by encode
    decoded,      \* result of decode
    stream,       \* BitByteArray.__stream
    bit_pointer,  \* BitByteArray.__bit_pointer
    appended,     \* history: the meaningful bits handed to append/extend so far
    calls,        \* history: number of append/extend calls made
    array,        \* bitutils: the array written to
    fields,       \* bitutils history: the fields written (offset, bits, number)
    offset,       \* bitutils: offset returned by the last write
    width,        \* bitutils: word width of the array under test (8 or 32)
    arg,          \* arguments of the calls other than the input list
    result        \* value returned by a single call

vars == <<pc, numbers, codes, encoded, padding, decoded, stream, bit_pointer,
          appended, calls, array, fields, offset, width, arg, result>>

codecVars == <<numbers, codes, encoded, padding, decoded, arg, result>>
bbaVars   == <<stream, bit_pointer, appended, calls>>
bitsVars  == <<array, fields, offset, width>>

\* The variables of the families a specification does not use.
CodecIdle ==
    /\ numbers = <<>> /\ codes = <<>> /\ encoded = <<>>
    /\ padding = 0 /\ decoded = <<>> /\ arg = <<>> /\ result = <<>>

BBAIdle ==
    /\ stream = <<>> /\ bit_pointer = 0 /\ appended = <<>> /\ calls = 0

BitsIdle ==
    /\ array = <<>> /\ fields = <<>> /\ offset = 0 /\ width = 0

(***************************************************************************)
(* Bounds of the model.                                                    *)
(***************************************************************************)
MaxFields == 2      \* bitutils: fields written one after the other
MaxStart8 == 7      \* bitutils: first offsets tried in a byte array
MaxStart32 == 31    \* bitutils: first offsets tried in a word array
MaxCalls == 2       \* BitByteArray: append/extend calls made on one buffer
MaxExtend == 2      \* BitByteArray: bytes handed to one extend call
MaxPadOut == 2      \* BitByteArray: paddings tried below 0 and above 7
MaxOps == 3         \* BitByteArray: calls of any method made on one buffer
MaxPlaces == 17     \* BitByteArray: largest number of places handed to to_left
MaxGapsLen == 3     \* Gaps: length of the input list
MaxGapsVal == 4     \* Gaps: largest input value
MaxVBLen == 3       \* Variable-Byte: length of the input list
MaxUnaryLen == 2    \* Unary: length of the input list
MaxUnaryOff == 9    \* Unary: bit offset at which the packed codes start
MaxGammaLen == 2    \* Elias-Gamma: length of the input list
MaxS16Run == 29     \* Simple-16: longest run of equal values in the input
MaxBPLen == 3       \* Bit-Packing: length of the input list
MaxPForLen == 3     \* PForDelta: length of the input list
MaxEFLen == 3       \* Elias-Fano: length of the input list
MaxEFRange == 40    \* Elias-Fano: length of the dense list range(0, n)
MaxEFExtra == 2     \* Elias-Fano: declared counts tried above the length of the list

(***************************************************************************)
(* Generic helpers.                                                        *)
(***************************************************************************)
Pow2(k) == 2^k
Shr(n, k) == n \div Pow2(k)
Shl(n, k) == n * Pow2(k)
AndMask(n, k) == n % Pow2(k)
Abs(n) == IF n < 0 THEN -n ELSE n
Min(a, b) == IF a < b THEN a ELSE b
CeilDiv(a, b) == -((-a) \div b)
RECURSIVE Rep(_, _)
Rep(v, n) == IF n <= 0 THEN <<>> ELSE Append(Rep(v, n - 1), v)

Lists(S, n) == UNION {[1..k -> S] : k \in 0..n}
NonDecreasing(xs) == \A i \in 2..Len(xs) : xs[i - 1] <= xs[i]

RECURSIVE Concat(_)
Concat(ss) == IF ss = <<>> THEN <<>> ELSE Head(ss) \o Concat(Tail(ss))

\* An exception raised by the code, and a normal return.
Raise == [exc |-> TRUE]
Ok(v) == [exc |-> FALSE, val |-> v]

(***************************************************************************)
(* Python ints of the 32-bit word code: the set of one-bit positions.      *)
(***************************************************************************)
Big(n) == {i \in 0..30 : (n \div Pow2(i)) % 2 = 1}

RECURSIVE IntOf(_)
IntOf(a) == IF a = {} THEN 0
          ELSE LET i == CHOOSE j \in a : TRUE IN Pow2(i) + IntOf(a \ {i})

BigShl(a, k) == {i + k : i \in a}
BigShr(a, k) == {i - k : i \in {j \in a : j >= k}}
BigAnd(a, b) == a \cap b
BigMask(k) == 0..(k - 1)

RECURSIVE BigAdd(_, _)
BigAdd(a, b) == IF a \cap b = {} THEN a \cup b
                ELSE BigAdd((a \cup b) \ (a \cap b), BigShl(a \cap b, 1))

\* Number of bits of a: floor(log2(a)) + 1 for a > 0.
BigLen(a) == IF a = {} THEN 0 ELSE (CHOOSE i \in a : \A j \in a : j <= i) + 1

BigGt(a, b) == \E i \in a \ b : \A j \in b \ a : j < i

(***************************************************************************)
(* bitutils.py                                                             *)
(***************************************************************************)
\* The mask is one bit short: the top bit of what is left to write is lost.
ClearMask_short(shift) == BigShr(BigMask(32), 33 - shift)

\* The bits already written are not removed from the number.
ClearMask_none(shift) == BigMask(32)

\* 0xFFFFFFFF >> (32 - shift)
ClearMask(shift) == BigShr(BigMask(32), 32 - shift)

RECURSIVE write_binary_in_iarray(_, _, _, _)
write_binary_in_iarray(arr, off, number, bits) ==
    IF bits > 0
    THEN LET array_index == Shr(off, 5)
             bit_index == AndMask(off, 5)
             writable == 32 - bit_index
             to_write == IF bits < writable THEN bits ELSE writable
             shift == Abs(bits - writable)
             added == IF writable < bits THEN BigShr(number, shift)
                                         ELSE BigShl(number, shift)
         IN write_binary_in_iarray(
                [arr EXCEPT ![array_index + 1] = BigAdd(@, added)],
                off + to_write,
                BigAnd(number, ClearMask(shift)),
                bits - to_write)
    ELSE [array |-> arr, offset |-> off]

read_binary_from_iarray(arr, off, bits) ==
    LET array_index == Shr(off, 5)
        bit_index == AndMask(off, 5)
        readable == 32 - bit_index
        extracted == BigAnd(arr[array_index + 1], BigShr(BigMask(32), bit_index))
        to_shift == IF readable - bits > 0 THEN readable - bits ELSE 0
        number == BigShr(extracted, to_shift)
        rest == bits - readable
    IN IF rest > 0
       THEN BigAdd(BigShl(number, rest), BigShr(arr[array_index + 2], 32 - rest))
       ELSE number

\* A byte array holds TLC integers (bytes); the number written is a Big.
RECURSIVE write_binary_in_barray(_, _, _, _)
write_binary_in_barray(arr, off, number, bits) ==
    IF bits > 0
    THEN LET array_index == Shr(off, 3)
             bit_index == AndMask(off, 3)
             writable == 8 - bit_index
             to_write == IF bits < writable THEN bits ELSE writable
             shift == Abs(bits - writable)
             added == IF writable < bits THEN BigShr(number, shift)
                                         ELSE BigShl(number, shift)
         IN write_binary_in_barray(
                [arr EXCEPT ![array_index + 1] = @ + IntOf(added)],
                off + to_write,
                BigAnd(number, ClearMask(shift)),
                bits - to_write)
    ELSE [array |-> arr, offset |-> off]

RECURSIVE read_barray_loop(_, _, _, _)
read_barray_loop(arr, off, bits, number) ==
    IF bits > 0
    THEN LET array_index == Shr(off, 3)
             bit_index == AndMask(off, 3)
             readable == 8 - bit_index
             to_read == IF bits < readable THEN bits ELSE readable
             extracted == AndMask(arr[array_index + 1], 8 - bit_index)
             to_shift == IF readable - bits > 0 THEN readable - bits ELSE 0
             shifted == Shr(extracted, to_shift)
         IN read_barray_loop(arr, off + to_read, bits - to_read,
                             BigAdd(BigShl(number, to_read), Big(shifted)))
    ELSE number

read_binary_from_barray(arr, off, bits) == read_barray_loop(arr, off, bits, {})

(***************************************************************************)
(* bitbytearray/bitbyteutils.py                                            *)
(***************************************************************************)
\* None, and a returned value.
None == <<>>
Ret(v) == <<v>>

to_bytes(size, number) ==
    [k \in 1..size |-> AndMask(Shr(number, (size - k) * 8), 8)]

to_byte(number) == to_bytes(1, number)

to_left(byte, places) == AndMask(Shl(byte, places), 8)

to_right(byte, places) == AndMask(Shr(byte, places), 8)

\* TRUE when validate_padding raises.
validate_padding(p) == ~(p >= 0 \/ p < 8)

(***************************************************************************)
(* bitbytearray/__init__.py: a BitByteArray object is a record of its two  *)
(* fields; a method returns the object after the call, the value returned  *)
(* and whether it raised.                                                  *)
(***************************************************************************)
BitByteArray == [stream |-> <<>>, bit_pointer |-> 0]

bba_padding(self) ==
    IF 8 - self.bit_pointer = 8 THEN 0 ELSE 8 - self.bit_pointer

recompute_bit_pointer(self, p) ==
    IF p = 0 THEN self
    ELSE [self EXCEPT !.bit_pointer = (self.bit_pointer + (8 - p)) % 8]

\* The carried part is written also when it holds no bit of the byte.
has_to_write_carried_eq(byte_padding, bytearray_offset) ==
    bytearray_offset - byte_padding >= 0

has_to_write_carried(byte_padding, bytearray_offset) ==
    bytearray_offset - byte_padding > 0

Called(self, ret) == [exc |-> FALSE, self |-> self, ret |-> ret]
Failed(self) == [exc |-> TRUE, self |-> self, ret |-> None]

bba_append(self, element, p) ==
    IF validate_padding(p) THEN Failed(self)
    ELSE LET off == self.bit_pointer IN
      IF off = 0
      THEN Called(recompute_bit_pointer(
                      [self EXCEPT !.stream = @ \o to_byte(element)], p), None)
      ELSE
        \* self.__stream[-1] += ...: IndexError on an empty stream, ValueError
        \* when the sum is no byte.
        IF self.stream = <<>> THEN Failed(self)
        ELSE LET n == Len(self.stream)
                 last == self.stream[n] + Shr(element, off)
                 carried == to_left(element, 8 - off)
             IN IF last > 255 THEN Failed(self)
                ELSE LET s1 == [self.stream EXCEPT ![n] = last]
                         s2 == IF has_to_write_carried(p, off)
                               THEN s1 \o to_byte(carried) ELSE s1
                         after == recompute_bit_pointer(
                                      [self EXCEPT !.stream = s2], p)
                     IN Called(after, Ret(bba_padding(after)))

RECURSIVE bba_extend_loop(_, _, _, _)
bba_extend_loop(self, elements, p, i) ==
    IF i >= Len(elements) THEN Called(self, Ret(bba_padding(self)))
    ELSE LET last_byte == (i = Len(elements) - 1)
             padding_to_append == IF last_byte THEN p ELSE 0
             r == bba_append(self, elements[i + 1], padding_to_append)
         IN IF r.exc THEN r ELSE bba_extend_loop(r.self, elements, p, i + 1)

bba_extend(self, elements, p) ==
    IF validate_padding(p) THEN Failed(self)
    ELSE bba_extend_loop(self, elements, p, 0)

\* clear: the stream is emptied, the bit pointer is not touched.
bba_clear(self) == Called([self EXCEPT !.stream = <<>>], None)

\* close_byte: returns the old bit pointer.
bba_close_byte(self) == Called([self EXCEPT !.bit_pointer = 0], Ret(self.bit_pointer))

\* to_left that also shifts every byte left by places & 7.
bba_to_left_bits(self, places) ==
    LET new_start_index == Shr(places, 3)
        s1 == SubSeq(self.stream, new_start_index + 1, Len(self.stream))
    IN Called([self EXCEPT !.stream = [i \in 1..Len(s1) |-> to_left(s1[i], places % 8)]],
              None)

\* to_left: to_move is set to places & 7 and then to 0, so the method
\* returns right after the slice stream[new_start_index:].
bba_to_left(self, places) ==
    LET new_start_index == Shr(places, 3)
        s1 == SubSeq(self.stream, new_start_index + 1, Len(self.stream))
    IN Called([self EXCEPT !.stream = s1], None)

(***************************************************************************)
(* SpecBBA: append and extend calls on one BitByteArray, every byte with   *)
(* its padding bits zero.                                                  *)
(***************************************************************************)
Self == [stream |-> stream, bit_pointer |-> bit_pointer]

\* The bit at position k (from 0, most significant first) of a byte sequence.
BitAt(bytes, k) == Shr(bytes[(k \div 8) + 1], 7 - (k % 8)) % 2

\* The high n bits of a byte, most significant first.
HighBits(byte, n) == [k \in 1..n |-> Shr(byte, 8 - k) % 2]

\* Bytes whose low p bits are zero.
BytePatterns == {255, 165, 0}
Padded(v, p) == Shl(Shr(v, p), p)

\* The meaningful bits of a list handed to extend.
RECURSIVE MeaningfulBits(_, _)
MeaningfulBits(elements, p) ==
    IF elements = <<>> THEN <<>>
    ELSE IF Len(elements) = 1 THEN HighBits(elements[1], 8 - p)
    ELSE HighBits(elements[1], 8) \o MeaningfulBits(Tail(elements), p)

InitBBA ==
    /\ pc = "bba"
    /\ stream = <<>> /\ bit_pointer = 0 /\ appended = <<>> /\ calls = 0
    /\ CodecIdle /\ BitsIdle

Applied(r, bits) ==
    /\ stream' = r.self.stream
    /\ bit_pointer' = r.self.bit_pointer
    /\ appended' = appended \o bits
    /\ calls' = calls + 1
    /\ pc' = IF r.exc THEN "raised" ELSE pc
    /\ UNCHANGED <<codecVars, bitsVars>>

DoAppend ==
    /\ pc = "bba" /\ calls < MaxCalls
    /\ \E p \in 0..7 : \E v \in BytePatterns :
          Applied(bba_append(Self, Padded(v, p), p), HighBits(Padded(v, p), 8 - p))

DoExtend ==
    /\ pc = "bba" /\ calls < MaxCalls
    /\ \E n \in 0..MaxExtend : \E p \in 0..7 : \E v \in BytePatterns :
          LET elements == [k \in 1..n |-> IF k = n THEN Padded(v, p) ELSE v]
          IN Applied(bba_extend(Self, elements, p), MeaningfulBits(elements, p))

NextBBA == DoAppend \/ DoExtend

SpecBBA == InitBBA /\ [][NextBBA]_vars

\* C9: with T the number of meaningful bits appended, the buffer holds
\* ceil(T/8) bytes, padding() is (8 - T mod 8) mod 8, the first T bits of the
\* buffer are the appended bits in call order, and the padding bits are zero;
\* no call fails.
C9_AppendInvariant ==
    pc \in {"bba", "raised"} =>
        LET T == Len(appended) IN
        /\ pc = "bba"
        /\ Len(stream) = CeilDiv(T, 8)
        /\ bba_padding(Self) = (8 - (T % 8)) % 8
        /\ \A k \in 0..(T - 1) : BitAt(stream, k) = appended[k + 1]
        /\ \A k \in T..(8 * Len(stream) - 1) : BitAt(stream, k) = 0

\* Two calls, the second made at a non-zero bit cursor and crossing into a new byte.
C9_Witness ==
    /\ pc = "bba"
    /\ calls = 2
    /\ Len(stream) = 2
    /\ Len(appended) \in 9..15
    /\ appended[8] = 1 /\ appended[9] = 1

(***************************************************************************)
(* SpecPad: validate_padding, append and extend called on one BitByteArray *)
(* with any padding, inside and outside 0..7. arg holds the padding of the *)
(* last call, the stream and bit pointer it found and the function called; *)
(* result holds whether the call raised and the value it returned.         *)
(***************************************************************************)
PadValues == (0 - MaxPadOut)..(7 + MaxPadOut)

PadBytes == {255, 160, 0}

InitPad ==
    /\ pc = "pad"
    /\ stream = <<>> /\ bit_pointer = 0 /\ appended = <<>> /\ calls = 0
    /\ CodecIdle /\ BitsIdle

PadCalled(op, p, r) ==
    /\ stream' = r.self.stream
    /\ bit_pointer' = r.self.bit_pointer
    /\ arg' = <<p, stream, bit_pointer, op>>
    /\ result' = <<r.exc, r.ret>>
    /\ calls' = calls + 1
    /\ pc' = IF r.exc THEN "raised" ELSE pc
    /\ UNCHANGED <<numbers, codes, encoded, padding, decoded, appended, bitsVars>>

PadValidate ==
    /\ pc = "pad" /\ calls < MaxCalls
    /\ \E p \in PadValues :
          PadCalled("validate_padding", p, IF validate_padding(p) THEN Failed(Self) ELSE Called(Self, None))

PadAppend ==
    /\ pc = "pad" /\ calls < MaxCalls
    /\ \E p \in PadValues : \E v \in PadBytes :
          PadCalled("append", p, bba_append(Self, v, p))

PadExtend ==
    /\ pc = "pad" /\ calls < MaxCalls
    /\ \E n \in 0..MaxExtend : \E p \in PadValues : \E v \in PadBytes :
          PadCalled("extend", p, bba_extend(Self, Rep(v, n), p))

NextPad == PadValidate \/ PadAppend \/ PadExtend

SpecPad == InitPad /\ [][NextPad]_vars

\* C17: a call of validate_padding, append or extend with a padding outside
\* 0..7 fails and leaves the stream and the bit pointer as they were;
\* validate_padding returns normally for a padding in 0..7.
C17_PaddingValidation ==
    calls > 0 =>
        /\ arg[1] \notin 0..7 =>
              /\ result[1]
              /\ stream = arg[2]
              /\ bit_pointer = arg[3]
        /\ arg[1] \in 0..7 => ~validate_padding(arg[1])

\* C21: append with a padding of 0..7 returns the new padding of the buffer,
\* the value padding() returns right after the call, whether the bit
\* pointer it found was 0 or not.
C21_AppendReturn ==
    (calls > 0 /\ arg[4] = "append" /\ arg[1] \in 0..7 /\ ~result[1]) =>
        result[2] = Ret(bba_padding(Self))

(***************************************************************************)
(* SpecOps: append, extend (paddings 0..7), close_byte, clear and to_left  *)
(* called in any order on one BitByteArray.  arg holds the method called,  *)
(* its padding or places, and the stream and bit pointer it found; result  *)
(* holds whether the call raised and the value it returned.                *)
(***************************************************************************)
InitOps ==
    /\ pc = "ops"
    /\ stream = <<>> /\ bit_pointer = 0 /\ appended = <<>> /\ calls = 0
    /\ CodecIdle /\ BitsIdle

OpCalled(op, a, r) ==
    /\ stream' = r.self.stream
    /\ bit_pointer' = r.self.bit_pointer
    /\ arg' = <<op, a, stream, bit_pointer>>
    /\ result' = <<r.exc, r.ret>>
    /\ calls' = calls + 1
    /\ pc' = IF r.exc THEN "raised" ELSE pc
    /\ UNCHANGED <<numbers, codes, encoded, padding, decoded, appended, bitsVars>>

OpAppend ==
    /\ pc = "ops" /\ calls < MaxOps
    /\ \E p \in 0..7 : \E v \in BytePatterns :
          OpCalled("append", p, bba_append(Self, Padded(v, p), p))

OpExtend ==
    /\ pc = "ops" /\ calls < MaxOps
    /\ \E n \in 0..MaxExtend : \E p \in 0..7 : \E v \in BytePatterns :
          OpCalled("extend", p,
                   bba_extend(Self, [k \in 1..n |-> IF k = n THEN Padded(v, p) ELSE v], p))

OpCloseByte ==
    /\ pc = "ops" /\ calls < MaxOps
    /\ OpCalled("close_byte", 0, bba_close_byte(Self))

OpClear ==
    /\ pc = "ops" /\ calls < MaxOps
    /\ OpCalled("clear", 0, bba_clear(Self))

OpToLeft ==
    /\ pc = "ops" /\ calls < MaxOps
    /\ \E places \in 0..MaxPlaces :
          OpCalled("to_left", places, bba_to_left(Self, places))

NextOps == OpAppend \/ OpExtend \/ OpCloseByte \/ OpClear \/ OpToLeft

SpecOps == InitOps /\ [][NextOps]_vars

\* C29: in every state reached from an empty BitByteArray the bit pointer
\* is in 0..7 and is 0 when the stream is empty, and no call fails: an
\* append never addresses the last byte of an empty stream.
C29_CursorStreamConsistency ==
    /\ bit_pointer \in 0..7
    /\ bit_pointer # 0 => stream # <<>>
    /\ pc # "raised"

gaps_encode_first(xs) ==
    IF xs = <<>> THEN Raise
    ELSE Ok([i \in 1..Len(xs) |-> IF i = 1 THEN xs[1] ELSE xs[i] - xs[1]])

\* numbers[0] raises IndexError on an empty list.
gaps_encode(xs) ==
    IF xs = <<>> THEN Raise
    ELSE Ok([i \in 1..Len(xs) |-> IF i = 1 THEN xs[1] ELSE xs[i] - xs[i - 1]])

RECURSIVE prefix_sums(_, _)
prefix_sums(gaps, acc) ==
    IF gaps = <<>> THEN acc
    ELSE prefix_sums(Tail(gaps), Append(acc, Head(gaps) + acc[Len(acc)]))

\* gaps.pop(0) removes the first element of the caller's list; the value
\* returned and the list as the call leaves it.
gaps_decode(gaps) ==
    IF gaps = <<>> THEN [exc |-> TRUE, gaps |-> gaps]
    ELSE [exc |-> FALSE, val |-> prefix_sums(Tail(gaps), <<Head(gaps)>>),
          gaps |-> Tail(gaps)]

InitGaps ==
    /\ pc = "init"
    /\ numbers \in Lists(0..MaxGapsVal, MaxGapsLen)
                     \cup {<<1000, 1001, 1009, 2000, 2009>>}
    /\ codes = <<>> /\ encoded = <<>> /\ padding = 0 /\ decoded = <<>>
    /\ arg = <<>> /\ result = <<>>
    /\ BBAIdle /\ BitsIdle

GapsEncode ==
    /\ pc = "init"
    /\ LET r == gaps_encode(numbers)
       IN /\ pc' = IF r.exc THEN "raised" ELSE "encoded"
          /\ encoded' = IF r.exc THEN encoded ELSE r.val
          /\ codes' = IF r.exc THEN codes ELSE r.val
    /\ UNCHANGED <<numbers, padding, decoded, arg, result, bbaVars, bitsVars>>

GapsDecode ==
    /\ pc = "encoded"
    /\ LET r == gaps_decode(encoded)
       IN /\ pc' = IF r.exc THEN "raised" ELSE "decoded"
          /\ decoded' = IF r.exc THEN decoded ELSE r.val
          /\ encoded' = r.gaps
    /\ UNCHANGED <<numbers, codes, padding, arg, result, bbaVars, bitsVars>>

NextGaps == GapsEncode \/ GapsDecode

SpecGaps == InitGaps /\ [][NextGaps]_vars

\* C8: for a non-empty non-decreasing list, encode returns the first number
\* followed by the differences of neighbours, every gap >= 0, and decode of
\* that list returns the input.
C8_GapsRoundTrip ==
    (numbers # <<>> /\ NonDecreasing(numbers)) =>
        /\ pc # "raised"
        /\ pc \in {"encoded", "decoded"} =>
              /\ Len(codes) = Len(numbers)
              /\ codes[1] = numbers[1]
              /\ \A i \in 2..Len(numbers) : codes[i] = numbers[i] - numbers[i - 1]
              /\ \A i \in 1..Len(codes) : codes[i] >= 0
        /\ pc = "decoded" => decoded = numbers

C8_Witness ==
    /\ pc = "decoded"
    /\ numbers = <<1000, 1001, 1009, 2000, 2009>>
    /\ codes = <<1000, 1, 8, 991, 9>>
    /\ decoded = numbers

\* C19: encode raises for an empty list and for a list that is not
\* non-decreasing, and never returns a negative gap.
C19_GapsValidation ==
    /\ (pc # "init" /\ (numbers = <<>> \/ ~NonDecreasing(numbers))) =>
          (pc = "raised" /\ codes = <<>>)
    /\ \A i \in 1..Len(codes) : codes[i] >= 0

\* C28: after decode returns, the list the caller passed has the length and
\* the elements it had before the call.
C28_GapsDecodeKeepsInput ==
    pc = "decoded" => encoded = codes

(***************************************************************************)
(* vbencoder.py                                                            *)
(***************************************************************************)
\* The loop also stops at 128.
RECURSIVE vb_encode_loop_le(_, _)
vb_encode_loop_le(number, enc) ==
    LET e == <<AndMask(number, 7)>> \o enc
    IN IF number <= 128 THEN e ELSE vb_encode_loop_le(Shr(number, 7), e)

RECURSIVE vb_encode_loop(_, _)
vb_encode_loop(number, enc) ==
    LET e == <<AndMask(number, 7)>> \o enc
    IN IF number < 128 THEN e ELSE vb_encode_loop(Shr(number, 7), e)

\* The terminator bit is set on the first byte instead of the last.
vb_encode_first(number) ==
    LET e == vb_encode_loop(number, <<>>)
    IN [e EXCEPT ![1] = @ + 128]

vb_encode(number) ==
    LET e == vb_encode_loop(number, <<>>)
    IN [e EXCEPT ![Len(e)] = @ + 128]

RECURSIVE vb_decode_number_loop(_, _, _, _)
vb_decode_number_loop(enc, off, i, number) ==
    IF i >= Len(enc) THEN <<0, off>>
    ELSE LET byte == enc[i + 1]
             n == Shl(number, 7) + byte
         IN IF byte > 127 THEN <<n - 128, (i + 1) * 8>>
            ELSE vb_decode_number_loop(enc, off, i + 1, n)

vb_decode_number(enc, off) == vb_decode_number_loop(enc, off, Shr(off, 3), 0)

RECURSIVE vb_decode_loop(_, _, _)
vb_decode_loop(enc, number, acc) ==
    IF enc = <<>> THEN acc
    ELSE LET byte == Head(enc)
             n == Shl(number, 7) + byte
         IN IF byte > 127 THEN vb_decode_loop(Tail(enc), 0, Append(acc, n - 128))
            ELSE vb_decode_loop(Tail(enc), n, acc)

vb_decode(enc) == vb_decode_loop(enc, 0, <<>>)

\* Inputs: the ends of the 1- to 5-byte ranges (TLC's integers end below 2^31).
VBValues == {0, 1, 127, 128, 300, 16383, 16384, 2097151, 2097152,
             268435455, 268435456, 2147483519}

\* Byte index of the first byte of number j (from 1) in the concatenated codes.
RECURSIVE CodeStart(_, _)
CodeStart(cs, j) == IF j <= 1 THEN 0 ELSE Len(cs[j - 1]) + CodeStart(cs, j - 1)

InitVB ==
    /\ pc = "init"
    /\ numbers \in Lists(VBValues, MaxVBLen)
    /\ codes = <<>> /\ encoded = <<>> /\ padding = 0 /\ decoded = <<>>
    /\ arg = <<>> /\ result = <<>>
    /\ BBAIdle /\ BitsIdle

\* main: encoded += encode(number) for every number.
VBEncode ==
    /\ pc = "init"
    /\ codes' = [i \in 1..Len(numbers) |-> vb_encode(numbers[i])]
    /\ encoded' = Concat(codes')
    /\ pc' = "encoded"
    /\ UNCHANGED <<numbers, padding, decoded, arg, result, bbaVars, bitsVars>>

VBDecode ==
    /\ pc = "encoded"
    /\ decoded' = vb_decode(encoded)
    /\ pc' = "decoded"
    /\ UNCHANGED <<numbers, codes, encoded, padding, arg, result, bbaVars, bitsVars>>

\* decode_number at the first byte of one of the numbers.
VBDecodeNumber ==
    /\ pc = "encoded"
    /\ \E j \in 1..Len(numbers) :
          /\ arg' = <<j>>
          /\ result' = vb_decode_number(encoded, 8 * CodeStart(codes, j))
    /\ pc' = "number"
    /\ UNCHANGED <<numbers, codes, encoded, padding, decoded, bbaVars, bitsVars>>

NextVB == VBEncode \/ VBDecode \/ VBDecodeNumber

SpecVB == InitVB /\ [][NextVB]_vars

\* C7: decode of the concatenated codes returns the input list, and
\* decode_number at the first byte of number j returns that number and the
\* bit offset of the first byte of the next one.
C7_VBRoundTrip ==
    /\ pc = "decoded" => decoded = numbers
    /\ pc = "number" =>
          result = <<numbers[arg[1]], 8 * CodeStart(codes, arg[1] + 1)>>

C7_Witness ==
    /\ pc = "number"
    /\ numbers = <<300, 268435456>>
    /\ encoded = <<2, 172, 1, 0, 0, 0, 128>>
    /\ arg = <<2>>
    /\ result = <<268435456, 56>>

\* The value of base-128 digits, most significant first.
RECURSIVE Base128(_)
Base128(ds) ==
    IF ds = <<>> THEN 0
    ELSE Base128(SubSeq(ds, 1, Len(ds) - 1)) * 128 + (ds[Len(ds)] % 128)

\* C12: the code of n has max(1, ceil(bitlength(n)/7)) bytes, holds the
\* base-128 digits of n most significant first, and exactly its last byte has
\* the high bit set; the concatenated codes hold as many bytes with the high
\* bit set as there are numbers.
C12_VBBitProperty ==
    pc \in {"encoded", "decoded", "number"} =>
        /\ \A i \in 1..Len(numbers) :
              LET code == codes[i]
                  bits == BigLen(Big(numbers[i]))
              IN /\ Len(code) = (IF bits = 0 THEN 1 ELSE CeilDiv(bits, 7))
                 /\ Base128(code) = numbers[i]
                 /\ \A k \in 1..Len(code) : code[k] \in 0..255
                 /\ \A k \in 1..Len(code) : (code[k] >= 128) <=> (k = Len(code))
        /\ Cardinality({k \in 1..Len(encoded) : encoded[k] >= 128}) = Len(numbers)

\* One-, three- and five-byte codes in one stream.
C12_Witness ==
    /\ pc = "encoded"
    /\ numbers = <<0, 16384, 2147483519>>
    /\ codes = << <<128>>, <<1, 0, 128>>, <<7, 127, 127, 126, 255>> >>
    /\ Len(encoded) = 9

(***************************************************************************)
(* SpecVBCut: decode_number on a stream cut after any number of bytes,     *)
(* from any byte offset up to one past its end.  arg = <<bytes kept, bit   *)
(* offset>>, result = the outcome of the call.                             *)
(***************************************************************************)
\* decode_number has no raising statement: it indexes inside the buffer
\* only and falls through to "return 0, offset".
vb_decode_number_call(enc, off) == Ok(vb_decode_number(enc, off))

InitVBCut ==
    /\ pc = "init"
    /\ numbers \in Lists(VBValues, MaxVBLen - 1)
    /\ codes = <<>> /\ encoded = <<>> /\ padding = 0 /\ decoded = <<>>
    /\ arg = <<>> /\ result = <<>>
    /\ BBAIdle /\ BitsIdle

VBDecodeNumberCut ==
    /\ pc = "encoded"
    /\ \E cut \in 0..Len(encoded) : \E byte_index \in 0..(cut + 1) :
          /\ encoded' = SubSeq(encoded, 1, cut)
          /\ arg' = <<cut, 8 * byte_index>>
          /\ result' = vb_decode_number_call(encoded', 8 * byte_index)
    /\ pc' = "cut"
    /\ UNCHANGED <<numbers, codes, padding, decoded, bbaVars, bitsVars>>

NextVBCut == VBEncode \/ VBDecodeNumberCut

SpecVBCut == InitVBCut /\ [][NextVBCut]_vars

\* C20: when the buffer has no byte with the high bit set at or after the
\* byte of the offset, decode_number raises an error.
C20_VBUnderrun ==
    (/\ pc = "cut"
     /\ \A k \in (arg[2] \div 8 + 1)..Len(encoded) : encoded[k] < 128)
        => result.exc

(***************************************************************************)
(* unaryencoder.py                                                         *)
(***************************************************************************)
\* READ_MSB_MASKS[i] and READ_SINCE_MASKS[i], i in 0..8.
READ_MSB_MASKS(i) == IF i = 8 THEN 0 ELSE Pow2(7 - i)
READ_SINCE_MASKS(i) == Pow2(8 - i) - 1

\* byte & READ_MSB_MASKS[i] is not zero.
MsbSet(byte, i) == i < 8 /\ (byte \div READ_MSB_MASKS(i)) % 2 = 1

\* The terminators are never counted.
unary_compute_encoded_size_opt(xs, optimized) ==
    LET RECURSIVE Sum(_)
        Sum(ys) == IF ys = <<>> THEN 0 ELSE Head(ys) + Sum(Tail(ys))
    IN Sum(xs)

unary_compute_encoded_size(xs, optimized) ==
    LET RECURSIVE Sum(_)
        Sum(ys) == IF ys = <<>> THEN 0 ELSE Head(ys) + Sum(Tail(ys))
    IN Sum(xs) + (IF optimized THEN 0 ELSE Len(xs))

\* The optimized code of 0 is the plain one instead of an exception.
unary_encode_lenient(number, optimize) ==
    LET bytes_required == CeilDiv(number + 1, 8)
        p0 == 8 - (number % 8) - 1
        pad == IF p0 = 8 THEN 0 ELSE p0
        full == Rep(255, IF bytes_required > 0 THEN bytes_required ELSE 0)
    IN IF full = <<>> THEN Raise
       ELSE LET enc == [full EXCEPT ![Len(full)] = AndMask(Shl(@, pad + 1), 8)]
            IN IF ~optimize \/ number = 0 THEN Ok(<<enc, pad>>)
               ELSE LET popped == IF pad = 7 THEN SubSeq(enc, 1, Len(enc) - 1) ELSE enc
                    IN IF popped = <<>> THEN Raise
                       ELSE Ok(<<[popped EXCEPT ![Len(popped)] = AndMask(Shl(@, 1), 8)],
                                 IF pad < 7 THEN pad + 1 ELSE 0>>)

\* encode returns (encoded, padding) or raises.
unary_encode(number, optimize) ==
    LET bytes_required == CeilDiv(number + 1, 8)
        p0 == 8 - (number % 8) - 1
        pad == IF p0 = 8 THEN 0 ELSE p0
        full == Rep(255, IF bytes_required > 0 THEN bytes_required ELSE 0)
    IN IF full = <<>> THEN Raise          \* encoded[-1]: IndexError
       ELSE LET enc == [full EXCEPT ![Len(full)] = AndMask(Shl(@, pad + 1), 8)]
            IN IF ~optimize THEN Ok(<<enc, pad>>)
               ELSE IF number = 0 THEN Raise
               ELSE LET popped == IF pad = 7 THEN SubSeq(enc, 1, Len(enc) - 1) ELSE enc
                    IN IF popped = <<>> THEN Raise
                       ELSE Ok(<<[popped EXCEPT ![Len(popped)] = AndMask(Shl(@, 1), 8)],
                                 IF pad < 7 THEN pad + 1 ELSE 0>>)

\* while encoded[byte_index] == 255: number += 8; byte_index += 1
RECURSIVE unary_skip_full(_, _, _)
unary_skip_full(enc, number, byte_index) ==
    IF byte_index >= Len(enc) THEN [exc |-> TRUE]
    ELSE IF enc[byte_index + 1] = 255
         THEN unary_skip_full(enc, number + 8, byte_index + 1)
         ELSE [exc |-> FALSE, number |-> number, byte_index |-> byte_index]

\* while readed & READ_MSB_MASKS[bit_index]: number += 1; bit_index += 1
RECURSIVE unary_count_ones(_, _, _)
unary_count_ones(readed, number, bit_index) ==
    IF MsbSet(readed, bit_index)
    THEN unary_count_ones(readed, number + 1, bit_index + 1)
    ELSE [number |-> number, bit_index |-> bit_index]

\* The run of ones is counted from the first bit of the byte, not from bit_index.
unary_first_read_byte(enc, byte_index, bit_index) == enc[byte_index + 1]

\* readed = encoded[byte_index] & READ_SINCE_MASKS[bit_index]
unary_first_read(enc, byte_index, bit_index) ==
    enc[byte_index + 1] % (READ_SINCE_MASKS(bit_index) + 1)

\* One pass of the for loop: the number decoded and the position after it.
unary_decode_one(enc, is_optimized, byte_index, bit_index) ==
    IF byte_index >= Len(enc) THEN [exc |-> TRUE]
    ELSE LET read_mask == READ_SINCE_MASKS(bit_index)
             readed == unary_first_read(enc, byte_index, bit_index)
             start == IF is_optimized THEN 1 ELSE 0
         IN IF readed = read_mask
            THEN LET sk == unary_skip_full(enc, start + (8 - bit_index), byte_index + 1)
                 IN IF sk.exc THEN [exc |-> TRUE]
                    ELSE LET c == unary_count_ones(enc[sk.byte_index + 1], sk.number, 0)
                             nb == (c.bit_index + 1) % 8
                         IN [exc |-> FALSE, number |-> c.number, bit_index |-> nb,
                             byte_index |-> sk.byte_index + (IF nb = 0 THEN 1 ELSE 0)]
            ELSE LET c == unary_count_ones(readed, start, bit_index)
                     nb == (c.bit_index + 1) % 8
                 IN [exc |-> FALSE, number |-> c.number, bit_index |-> nb,
                     byte_index |-> byte_index + (IF nb = 0 THEN 1 ELSE 0)]

RECURSIVE unary_decode_loop(_, _, _, _, _, _)
unary_decode_loop(enc, nums, is_optimized, byte_index, bit_index, acc) ==
    IF nums <= 0 THEN Ok(acc)
    ELSE LET r == unary_decode_one(enc, is_optimized, byte_index, bit_index)
         IN IF r.exc THEN Raise
            ELSE unary_decode_loop(enc, nums - 1, is_optimized, r.byte_index,
                                   r.bit_index, Append(acc, r.number))

unary_decode(enc, nums, is_optimized, off) ==
    unary_decode_loop(enc, nums, is_optimized, Shr(off, 3), AndMask(off, 3), <<>>)

(***************************************************************************)
(* SpecUnary: the codes of a list are packed bit-contiguously with         *)
(* BitByteArray.extend after off filler bits, then decoded from offset     *)
(* off.  arg = <<is_optimized, off, filler bit>>.                          *)
(***************************************************************************)
UnaryValues == {0, 1, 3, 6, 7, 8, 9, 17}

\* extend(code, padding) for every code, from the given buffer.
RECURSIVE PackCodes(_, _)
PackCodes(self, cs) ==
    IF cs = <<>> THEN Called(self, None)
    ELSE LET r == bba_extend(self, Head(cs)[1], Head(cs)[2])
         IN IF r.exc THEN r ELSE PackCodes(r.self, Tail(cs))

\* A buffer holding n filler bits of value b.
RECURSIVE Filler(_, _)
Filler(n, b) ==
    IF n = 0 THEN BitByteArray
    ELSE bba_append(Filler(n - 1, b), Shl(b, 7), 7).self

InitUnary ==
    /\ pc = "init"
    /\ numbers \in (Lists(UnaryValues, MaxUnaryLen) \ {<<>>})
                     \cup {<<1, 1, 3, 4, 0>>, <<6, 8>>}
    /\ arg \in BOOLEAN \X (0..MaxUnaryOff) \X {0, 1}
    /\ codes = <<>> /\ encoded = <<>> /\ padding = 0 /\ decoded = <<>>
    /\ result = <<>>
    /\ BBAIdle /\ BitsIdle

UnaryEncode ==
    /\ pc = "init"
    /\ LET rs == [i \in 1..Len(numbers) |-> unary_encode(numbers[i], arg[1])]
       IN IF \E i \in 1..Len(rs) : rs[i].exc
          THEN pc' = "raised" /\ UNCHANGED <<codes, encoded, padding>>
          ELSE LET cs == [i \in 1..Len(rs) |-> rs[i].val]
                   r == PackCodes(Filler(arg[2], arg[3]), cs)
               IN /\ codes' = cs
                  /\ encoded' = r.self.stream
                  /\ padding' = bba_padding(r.self)
                  /\ pc' = IF r.exc THEN "raised" ELSE "encoded"
    /\ UNCHANGED <<numbers, decoded, arg, result, bbaVars, bitsVars>>

UnaryDecode ==
    /\ pc = "encoded"
    /\ LET r == unary_decode(encoded, Len(numbers), arg[1], arg[2])
       IN /\ pc' = IF r.exc THEN "raised" ELSE "decoded"
          /\ decoded' = IF r.exc THEN decoded ELSE r.val
    /\ UNCHANGED <<numbers, codes, encoded, padding, arg, result, bbaVars, bitsVars>>

NextUnary == UnaryEncode \/ UnaryDecode

SpecUnary == InitUnary /\ [][NextUnary]_vars

\* The numbers a mode can encode: all >= 0, optimized all >= 1.
UnaryValid == \A i \in 1..Len(numbers) : numbers[i] >= (IF arg[1] THEN 1 ELSE 0)

\* C6: the codes of a valid list, packed from any bit offset, decode to the
\* list in order; neither call fails.
C6_UnaryRoundTrip ==
    UnaryValid =>
        /\ pc # "raised"
        /\ pc = "decoded" => decoded = numbers

\* A code of 17 ones (whole 0xFF bytes) that starts inside a byte, and the
\* two streams given as examples.
C6_Witness ==
    /\ pc = "decoded"
    /\ \/ numbers = <<17, 0>> /\ arg = <<FALSE, 3, 1>>
       \/ numbers = <<1, 1, 3, 4, 0>> /\ arg = <<FALSE, 0, 0>>
                                      /\ encoded = <<174, 240>>
       \/ numbers = <<6, 8>> /\ arg = <<FALSE, 0, 0>> /\ encoded = <<253, 254>>
    /\ decoded = numbers

\* C11: the plain code of n is n one-bits, a zero bit and zero padding,
\* n + 1 bits; the optimized code of n >= 1 is n - 1 one-bits and a zero bit,
\* n bits; the size is the one compute_encoded_size gives and the padding is
\* in 0..7.
C11_UnarySize ==
    pc \in {"encoded", "decoded"} =>
        \A i \in 1..Len(numbers) :
           LET bytes == codes[i][1]
               p == codes[i][2]
               ones == IF arg[1] THEN numbers[i] - 1 ELSE numbers[i]
           IN /\ p \in 0..7
              /\ 8 * Len(bytes) - p = ones + 1
              /\ 8 * Len(bytes) - p = unary_compute_encoded_size(<<numbers[i]>>, arg[1])
              /\ \A k \in 0..(ones - 1) : BitAt(bytes, k) = 1
              /\ \A k \in ones..(8 * Len(bytes) - 1) : BitAt(bytes, k) = 0

\* 3 -> 0b11100000 with padding 4, and 8 -> two bytes with padding 7.
C11_Witness ==
    /\ pc = "encoded"
    /\ numbers = <<3, 8>> /\ arg[1] = FALSE
    /\ codes = << <<(<<224>>), 4>>, <<(<<255, 0>>), 7>> >>

\* C18: the optimized encode of 0 raises and returns nothing; the plain
\* encode of 0 returns the byte 0x00 with padding 7.
C18_UnaryOptimizedZero ==
    (pc # "init" /\ \E i \in 1..Len(numbers) : numbers[i] = 0) =>
        IF arg[1] THEN pc = "raised" /\ codes = <<>> /\ encoded = <<>>
        ELSE /\ pc # "raised"
             /\ \A i \in 1..Len(numbers) :
                   numbers[i] = 0 => codes[i] = <<(<<0>>), 7>>

C18_Witness ==
    /\ pc = "raised"
    /\ numbers = <<0>> /\ arg[1] = TRUE
    /\ codes = <<>>

(***************************************************************************)
(* gammaencoder.py (numbers are Bigs: the codes of values up to 2^32 - 1   *)
(* are built by shifting).                                                 *)
(***************************************************************************)
\* bitbyteutils.to_bytes of a Big.
to_bytes_big(size, number) ==
    [k \in 1..size |-> IntOf(BigAnd(BigShr(number, (size - k) * 8), BigMask(8)))]

\* The bytes read by read_binary_from_barray(arr, off, bits) exist.
Readable(arr, off, bits) == bits <= 0 \/ (off >= 0 /\ off + bits <= 8 * Len(arr))

\* The padding of a whole number of bytes is left at 8.
gamma_to_vb_pad8(number) ==
    LET required_bits == BigLen(number)
        rest == number \ {required_bits - 1}
        new_required_bits == required_bits - 1
        required_bytes == CeilDiv(new_required_bits, 8)
        pad == 8 - (new_required_bits % 8)
    IN <<to_bytes_big(required_bytes, BigShl(rest, pad)), pad>>

\* __to_vb: math.log raises ValueError for 0 (checked by the caller below).
gamma_to_vb(number) ==
    LET required_bits == BigLen(number)
        rest == number \ {required_bits - 1}       \* number -= 2 ** (required_bits-1)
        new_required_bits == required_bits - 1
        required_bytes == CeilDiv(new_required_bits, 8)
        p0 == 8 - (new_required_bits % 8)
        pad == IF p0 = 8 THEN 0 ELSE p0
    IN <<to_bytes_big(required_bytes, BigShl(rest, pad)), pad>>

gamma_merge_encodes(unary_enc, unary_padding, vb_enc, vb_padding) ==
    LET r1 == bba_extend(BitByteArray, unary_enc, unary_padding)
        r2 == bba_extend(r1.self, vb_enc, vb_padding)
    IN IF r1.exc \/ r2.exc THEN Raise ELSE Ok(<<r2.self.stream, r2.ret[1]>>)

gamma_encode(number) ==
    IF number = {} THEN Raise
    ELSE LET vb == gamma_to_vb(number)
             size == Len(vb[1]) * 8 - vb[2]
             u == unary_encode(size, FALSE)
         IN IF u.exc THEN Raise
            ELSE gamma_merge_encodes(u.val[1], u.val[2], vb[1], vb[2])

RECURSIVE gamma_decode_loop(_, _, _, _)
gamma_decode_loop(enc, nums, off, acc) ==
    IF nums <= 0 THEN Ok(acc)
    ELSE LET u == unary_decode(enc, 1, FALSE, off)
         IN IF u.exc THEN Raise
            ELSE LET vb_size == u.val[1]
                     o2 == off + vb_size + 1
                 IN IF ~Readable(enc, o2, vb_size) THEN Raise
                    ELSE gamma_decode_loop(enc, nums - 1, o2 + vb_size,
                            Append(acc, BigAdd(read_binary_from_barray(enc, o2, vb_size),
                                               BigShl({0}, vb_size))))

gamma_decode(enc, nums) == gamma_decode_loop(enc, nums, 0, <<>>)

(***************************************************************************)
(* SpecGamma: every number of a list is encoded, the codes are packed      *)
(* bit-contiguously with BitByteArray.extend, and the buffer is decoded.   *)
(***************************************************************************)
\* 1, 2, 3, 9, 255, 256, 2^16 + 2^8 + 1, 2^31, 2^32 - 1.
GammaValues == {{0}, {1}, {0, 1}, {0, 3}, BigMask(8), {8}, {0, 8, 16},
                {31}, BigMask(32)}

InitGamma ==
    /\ pc = "init"
    /\ numbers \in Lists(GammaValues, MaxGammaLen) \ {<<>>}
    /\ codes = <<>> /\ encoded = <<>> /\ padding = 0 /\ decoded = <<>>
    /\ arg = <<>> /\ result = <<>>
    /\ BBAIdle /\ BitsIdle

GammaEncode ==
    /\ pc = "init"
    /\ LET rs == [i \in 1..Len(numbers) |-> gamma_encode(numbers[i])]
       IN IF \E i \in 1..Len(rs) : rs[i].exc
          THEN pc' = "raised" /\ UNCHANGED <<codes, encoded, padding>>
          ELSE LET cs == [i \in 1..Len(rs) |-> rs[i].val]
                   r == PackCodes(BitByteArray, cs)
               IN /\ codes' = cs
                  /\ encoded' = r.self.stream
                  /\ padding' = bba_padding(r.self)
                  /\ pc' = IF r.exc THEN "raised" ELSE "encoded"
    /\ UNCHANGED <<numbers, decoded, arg, result, bbaVars, bitsVars>>

GammaDecode ==
    /\ pc = "encoded"
    /\ LET r == gamma_decode(encoded, Len(numbers))
       IN /\ pc' = IF r.exc THEN "raised" ELSE "decoded"
          /\ decoded' = IF r.exc THEN decoded ELSE r.val
    /\ UNCHANGED <<numbers, codes, encoded, padding, arg, result, bbaVars, bitsVars>>

NextGamma == GammaEncode \/ GammaDecode

SpecGamma == InitGamma /\ [][NextGamma]_vars

\* unary(B) followed by the B low bits of n, most significant first.
GammaBits(n) ==
    LET B == BigLen(n) - 1
    IN Rep(1, B) \o <<0>> \o [k \in 1..B |-> IF (B - k) \in n THEN 1 ELSE 0]

\* C5: the code of n is B ones, a zero and the B low bits of n, 2B+1 bits,
\* with padding 8*len - (2B+1) and zero padding bits; the packed codes of a
\* list decode to the list in order; neither call fails.
C5_GammaRoundTrip ==
    /\ pc # "raised"
    /\ pc \in {"encoded", "decoded"} =>
          \A i \in 1..Len(numbers) :
             LET bytes == codes[i][1]
                 p == codes[i][2]
                 gb == GammaBits(numbers[i])
             IN /\ p \in 0..7
                /\ 8 * Len(bytes) - p = Len(gb)
                /\ \A k \in 0..(Len(gb) - 1) : BitAt(bytes, k) = gb[k + 1]
                /\ \A k \in Len(gb)..(8 * Len(bytes) - 1) : BitAt(bytes, k) = 0
    /\ pc = "decoded" => decoded = numbers

\* 9 -> 0b11100010 with padding 1, packed before a 63-bit code and decoded.
C5_Witness ==
    /\ pc = "decoded"
    /\ numbers = <<{0, 3}, BigMask(32)>>
    /\ codes[1] = <<<<226>>, 1>>
    /\ Len(encoded) = 9
    /\ decoded = numbers

(***************************************************************************)
(* simple16encoder.py (values and 32-bit batches are Bigs).                *)
(***************************************************************************)
S16_FORMATS(f) ==
    CASE f = 15 -> Rep(1, 28)
      [] f = 14 -> Rep(2, 7) \o Rep(1, 14)
      [] f = 13 -> Rep(1, 7) \o Rep(2, 7) \o Rep(1, 7)
      [] f = 12 -> Rep(1, 14) \o Rep(2, 7)
      [] f = 11 -> Rep(2, 14)
      [] f = 10 -> <<4>> \o Rep(3, 8)
      [] f = 9 -> <<3>> \o Rep(4, 4) \o Rep(3, 3)
      [] f = 8 -> Rep(4, 7)
      [] f = 7 -> Rep(5, 4) \o Rep(4, 2)
      [] f = 6 -> Rep(4, 2) \o Rep(5, 4)
      [] f = 5 -> Rep(6, 3) \o Rep(5, 2)
      [] f = 4 -> Rep(5, 2) \o Rep(6, 3)
      [] f = 3 -> Rep(7, 4)
      [] f = 2 -> <<10>> \o Rep(9, 2)
      [] f = 1 -> Rep(14, 2)
      [] f = 0 -> <<28>>

\* Only the first number is compared with its slot.
s16_fits_first(nums, start, s16f) ==
    ~BigGt(nums[start + 1], BigMask(S16_FORMATS(s16f)[1]))

\* find_optimal_format, the test of one format (start counts from 0).
s16_fits(nums, start, s16f) ==
    LET slots == S16_FORMATS(s16f)
        slots_size == Min(Len(slots), Len(nums) - start)
    IN \A i \in 0..(slots_size - 1) :
          ~BigGt(nums[start + i + 1], BigMask(slots[i + 1]))

\* The formats are tried from 0 up to 15.
find_optimal_format_up(nums, start) ==
    LET fit == {f \in 0..15 : s16_fits(nums, start, f)}
    IN IF fit = {} THEN None
       ELSE LET s16f == CHOOSE f \in fit : \A g \in fit : f <= g
            IN Ret(<<s16f, Len(S16_FORMATS(s16f))>>)

\* The formats are tried from 15 down to 0; None when none fits.
find_optimal_format(nums, start) ==
    LET fit == {f \in 0..15 : s16_fits(nums, start, f)}
    IN IF fit = {} THEN None
       ELSE LET s16f == CHOOSE f \in fit : \A g \in fit : g <= f
            IN Ret(<<s16f, Len(S16_FORMATS(s16f))>>)

RECURSIVE s16_encode_batch(_, _, _, _, _)
s16_encode_batch(to_encode, s16format, i, bits_to_move, encoded_batch) ==
    IF i > Len(to_encode) THEN encoded_batch
    ELSE LET btm == bits_to_move - S16_FORMATS(s16format)[i]
         IN s16_encode_batch(to_encode, s16format, i + 1, btm,
                             BigAdd(encoded_batch, BigShl(to_encode[i], btm)))

\* Unpacking None raises TypeError.
RECURSIVE s16_encode_loop(_, _, _)
s16_encode_loop(nums, start, acc) ==
    IF start >= Len(nums) THEN Ok(acc)
    ELSE LET fo == find_optimal_format(nums, start)
         IN IF fo = None THEN Raise
            ELSE LET s16format == fo[1][1]
                     numbers_to_encode == fo[1][2]
                     to_encode == SubSeq(nums, start + 1,
                                         Min(Len(nums), start + numbers_to_encode))
                 IN s16_encode_loop(nums, start + numbers_to_encode,
                        Append(acc, s16_encode_batch(to_encode, s16format, 1, 28,
                                                     BigShl(Big(s16format), 28))))

s16_encode(nums) == s16_encode_loop(nums, 0, <<>>)

RECURSIVE SlotEnd(_, _)
SlotEnd(slots, i) == IF i = 0 THEN 0 ELSE SlotEnd(slots, i - 1) + slots[i]

decode_batch(batch, s16format) ==
    LET slots == S16_FORMATS(s16format)
    IN [i \in 1..Len(slots) |->
           BigAnd(BigShr(batch, 28 - SlotEnd(slots, i)), BigMask(slots[i]))]

\* decode removing at most one trailing zero.
strip_trailing_zeros_once(nums) ==
    IF nums # <<>> /\ nums[Len(nums)] = {}
    THEN SubSeq(nums, 1, Len(nums) - 1)
    ELSE nums

RECURSIVE strip_trailing_zeros(_)
strip_trailing_zeros(nums) ==
    IF nums # <<>> /\ nums[Len(nums)] = {}
    THEN strip_trailing_zeros(SubSeq(nums, 1, Len(nums) - 1))
    ELSE nums

\* A format index above 15 is a KeyError.
RECURSIVE s16_decode_loop(_, _, _)
s16_decode_loop(enc, i, acc) ==
    IF i > Len(enc) THEN Ok(acc)
    ELSE LET s16format == IntOf(BigAnd(BigShr(enc[i], 28), BigMask(5)))
         IN IF s16format > 15 THEN Raise
            ELSE s16_decode_loop(enc, i + 1, acc \o decode_batch(enc[i], s16format))

s16_decode(enc, remove_trailing_zeros) ==
    LET r == s16_decode_loop(enc, 1, <<>>)
    IN IF r.exc THEN Raise
       ELSE IF remove_trailing_zeros THEN Ok(strip_trailing_zeros(r.val))
       ELSE r

(***************************************************************************)
(* SpecS16: a list made of three runs of values is encoded and decoded,    *)
(* with or without the removal of trailing zeros.  A run of a whole word   *)
(* of ones or more is followed by at most one value.                       *)
(***************************************************************************)
\* 0, 1, 2, 3, 15, 16, 127, 2^14 - 1, 2^28 - 1.
S16Values == {{}, {0}, {1}, {0, 1}, BigMask(4), {4}, BigMask(7), BigMask(14),
              BigMask(28)}

InitS16 ==
    /\ pc = "init"
    /\ \E a \in S16Values, b \in S16Values, c \in S16Values,
          n1 \in {0, 1, 7, MaxS16Run - 1, MaxS16Run}, n2 \in {0, 1, 7, 14},
          n3 \in {0, 2} :
          /\ n1 > 7 => (n2 <= 1 /\ n3 = 0)
          /\ numbers = Rep(a, n1) \o Rep(b, n2) \o Rep(c, n3)
    /\ codes = <<>> /\ encoded = <<>> /\ padding = 0 /\ decoded = <<>>
    /\ arg = <<>> /\ result = <<>>
    /\ BBAIdle /\ BitsIdle

S16Encode ==
    /\ pc = "init"
    /\ LET r == s16_encode(numbers)
       IN /\ pc' = IF r.exc THEN "raised" ELSE "encoded"
          /\ encoded' = IF r.exc THEN encoded ELSE r.val
    /\ UNCHANGED <<numbers, codes, padding, decoded, arg, result, bbaVars, bitsVars>>

S16Decode ==
    /\ pc = "encoded"
    /\ \E remove_trailing_zeros \in BOOLEAN :
          LET r == s16_decode(encoded, remove_trailing_zeros)
          IN /\ arg' = <<remove_trailing_zeros>>
             /\ pc' = IF r.exc THEN "raised" ELSE "decoded"
             /\ decoded' = IF r.exc THEN decoded ELSE r.val
    /\ UNCHANGED <<numbers, codes, encoded, padding, result, bbaVars, bitsVars>>

NextS16 == S16Encode \/ S16Decode

SpecS16 == InitS16 /\ [][NextS16]_vars

\* C4: with the removal of trailing zeros disabled, the decoded list is the
\* input followed only by zeros, and neither call fails.
C4_S16RoundTripNoStrip ==
    /\ pc # "raised"
    /\ (pc = "decoded" /\ arg = <<FALSE>>) =>
          /\ Len(decoded) >= Len(numbers)
          /\ SubSeq(decoded, 1, Len(numbers)) = numbers
          /\ \A i \in (Len(numbers) + 1)..Len(decoded) : decoded[i] = {}

\* Seven ones, 2^28 - 1 and two threes: three batches, the last one of
\* format 14 decodes its 19 unused slots as zeros.
C4_Witness ==
    /\ pc = "decoded" /\ arg = <<FALSE>>
    /\ numbers = Rep({0}, 7) \o <<BigMask(28)>> \o Rep({0, 1}, 2)
    /\ Len(encoded) = 3
    /\ Len(decoded) = 29
    /\ decoded[8] = BigMask(28)

\* The slots of format f hold the values of the list from position pos
\* (from 0) on: the next min(slots, remaining) values fit their widths.
S16Holds(f, pos) ==
    \A i \in 1..Min(Len(S16_FORMATS(f)), Len(numbers) - pos) :
        BigLen(numbers[pos + i]) <= S16_FORMATS(f)[i]

\* The words from the j-th on encode the list from position pos on, each
\* with the highest format that holds the next values.
RECURSIVE S16Layout(_, _)
S16Layout(j, pos) ==
    IF j > Len(encoded) THEN pos = Len(numbers)
    ELSE LET word == encoded[j]
             f == IntOf(BigShr(word, 28))
             k == Min(Len(S16_FORMATS(f)), Len(numbers) - pos)
         IN /\ word \subseteq 0..31
            /\ k >= 1
            /\ S16Holds(f, pos)
            /\ \A g \in (f + 1)..15 : ~S16Holds(g, pos)
            /\ word = BigShl(Big(f), 28) \cup
                      UNION {BigShl(numbers[pos + i], 28 - SlotEnd(S16_FORMATS(f), i)) :
                             i \in 1..k}
            /\ \A i \in 1..k :
                  BigShl(numbers[pos + i], 28 - SlotEnd(S16_FORMATS(f), i)) \subseteq
                     (28 - SlotEnd(S16_FORMATS(f), i))..(27 - SlotEnd(S16_FORMATS(f), i - 1))
            /\ S16Layout(j + 1, pos + k)

\* The list holds only zeros and ones.
S16Bits == \A i \in 1..Len(numbers) : numbers[i] \subseteq {0}

\* C22: with the default removal of trailing zeros, the decoded list is the
\* input without its trailing zeros: the input itself when it is empty or
\* ends in a non-zero value, a shorter list otherwise; leading and interior
\* zeros are kept; neither call fails.
C22_S16DefaultStrip ==
    /\ pc # "raised"
    /\ (pc = "decoded" /\ arg = <<TRUE>>) =>
          LET nz == {i \in 1..Len(numbers) : numbers[i] # {}}
              k == IF nz = {} THEN 0 ELSE CHOOSE i \in nz : \A j \in nz : j <= i
          IN /\ decoded = SubSeq(numbers, 1, k)
             /\ (numbers = <<>> \/ numbers[Len(numbers)] # {}) <=> decoded = numbers
             /\ Len(decoded) <= Len(numbers)

\* A leading zero, a one and two trailing zeros.
C22_Witness ==
    /\ pc = "decoded" /\ arg = <<TRUE>>
    /\ numbers = <<{}, {0}, {}, {}>>
    /\ decoded = <<{}, {0}>>

\* C13 (as stated): every word has the highest format that holds the next
\* values and is the format shifted by 28 joined with the values at their
\* slots, below 2^32, consuming at least one value; and every list of
\* k <= 28 zeros and ones is encoded as exactly one word of format 15.
C13_S16FormatSelection ==
    /\ pc # "raised"
    /\ pc = "encoded" =>
          /\ S16Layout(1, 0)
          /\ (S16Bits /\ Len(numbers) <= 28) =>
                (Len(encoded) = 1 /\ IntOf(BigShr(encoded[1], 28)) = 15)

\* C13 (amended): the same, the one-word law for the lists of 1 <= k <= 28
\* zeros and ones only: the empty list is encoded as no word at all.
C13_S16FormatSelectionNonEmpty ==
    /\ pc # "raised"
    /\ pc = "encoded" =>
          /\ S16Layout(1, 0)
          /\ (S16Bits /\ Len(numbers) \in 1..28) =>
                (Len(encoded) = 1 /\ IntOf(BigShr(encoded[1], 28)) = 15)
          /\ numbers = <<>> => encoded = <<>>

\* [1]*28: one word, format 15, every slot set.
C13_Witness ==
    /\ pc = "encoded"
    /\ numbers = Rep({0}, 28)
    /\ encoded = <<BigMask(32)>>

(***************************************************************************)
(* bitpackingencoder.py (values are Bigs, bytes are integers).             *)
(***************************************************************************)
\* sorted(numbers)[-1], for a non-empty list.
BigMax(nums) ==
    LET S == {nums[i] : i \in 1..Len(nums)}
    IN CHOOSE mx \in S : \A x \in S : ~BigGt(x, mx)

RECURSIVE bp_write_loop(_, _, _, _, _)
bp_write_loop(enc, nums, i, off, b) ==
    IF i > Len(nums) THEN enc
    ELSE bp_write_loop(write_binary_in_barray(enc, off, nums[i], b).array,
                       nums, i + 1, off + b, b)

\* encode with b, not b - 1, in the header.
bp_encode_b(nums) ==
    IF nums = <<>> THEN Raise
    ELSE LET max_number == BigMax(nums)
         IN IF max_number = {} THEN Raise
            ELSE LET b == (BigLen(max_number) - 1) + 1
                     bits_required == b * Len(nums)
                     bytes_required == CeilDiv(bits_required, 8)
                     body == bp_write_loop(Rep(0, bytes_required), nums, 1, 0, b)
                     header == vb_encode(b)
                     p0 == 8 - (bits_required % 8)
                 IN Ok(<<header \o body, IF p0 = 8 THEN 0 ELSE p0>>)

\* sorted([])[-1] raises IndexError, math.log(0, 2) raises ValueError.
bp_encode(nums) ==
    IF nums = <<>> THEN Raise
    ELSE LET max_number == BigMax(nums)
         IN IF max_number = {} THEN Raise
            ELSE LET b == (BigLen(max_number) - 1) + 1
                     bits_required == b * Len(nums)
                     bytes_required == CeilDiv(bits_required, 8)
                     body == bp_write_loop(Rep(0, bytes_required), nums, 1, 0, b)
                     header == vb_encode(b - 1)
                     p0 == 8 - (bits_required % 8)
                 IN Ok(<<header \o body, IF p0 = 8 THEN 0 ELSE p0>>)

bp_decode(enc, nums) ==
    LET h == vb_decode_number(enc, 0)
        b == h[1] + 1
        off == h[2]
    IN IF \E i \in 0..(nums - 1) : ~Readable(enc, off + i * b, b) THEN Raise
       ELSE Ok([k \in 1..nums |-> read_binary_from_barray(enc, off + (k - 1) * b, b)])

(***************************************************************************)
(* SpecBP: a non-empty list is bit-packed and decoded.                     *)
(***************************************************************************)
\* 0, 1, 3, 255, 256, 2^31, 2^32 - 1.
BPValues == {{}, {0}, {0, 1}, BigMask(8), {8}, {31}, BigMask(32)}

\* [0, 1, 2, 3, 4, 5, 6, 7]
BPExample == [i \in 1..8 |-> Big(i - 1)]

InitBP ==
    /\ pc = "init"
    /\ numbers \in (Lists(BPValues, MaxBPLen) \ {<<>>}) \cup {BPExample}
    /\ codes = <<>> /\ encoded = <<>> /\ padding = 0 /\ decoded = <<>>
    /\ arg = <<>> /\ result = <<>>
    /\ BBAIdle /\ BitsIdle

BPEncode ==
    /\ pc = "init"
    /\ LET r == bp_encode(numbers)
       IN /\ pc' = IF r.exc THEN "raised" ELSE "encoded"
          /\ encoded' = IF r.exc THEN encoded ELSE r.val[1]
          /\ padding' = IF r.exc THEN padding ELSE r.val[2]
    /\ UNCHANGED <<numbers, codes, decoded, arg, result, bbaVars, bitsVars>>

BPDecode ==
    /\ pc = "encoded"
    /\ LET r == bp_decode(encoded, Len(numbers))
       IN /\ pc' = IF r.exc THEN "raised" ELSE "decoded"
          /\ decoded' = IF r.exc THEN decoded ELSE r.val
    /\ UNCHANGED <<numbers, codes, encoded, padding, arg, result, bbaVars, bitsVars>>

NextBP == BPEncode \/ BPDecode

SpecBP == InitBP /\ [][NextBP]_vars

\* C3: every non-empty list of integers in [0, 2^32), a list whose maximum
\* is 0 included, is encoded and decoded back to itself without a failure.
C3_BitPackingRoundTrip ==
    /\ pc # "raised"
    /\ pc = "decoded" => decoded = numbers

\* C26: for a non-empty list of n values with a maximum of at least 1 and
\* b the bit length of the maximum, encode returns the header byte
\* (b - 1) + 128 followed by ceil(b*n/8) bytes in which value i occupies the
\* bits [i*b, (i+1)*b), most significant first, and every other bit is
\* zero, with padding (8 - b*n mod 8) mod 8; [0..7] gives b = 3, the bytes
\* 00000101 00111001 01110111 and padding 0.
C26_BPLayout ==
    (pc # "init" /\ \E i \in 1..Len(numbers) : numbers[i] # {}) =>
        LET n == Len(numbers)
            b == CHOOSE c \in 1..32 :
                     /\ \A i \in 1..n : numbers[i] \subseteq 0..(c - 1)
                     /\ \E i \in 1..n : (c - 1) \in numbers[i]
        IN /\ encoded # <<>>
           /\ encoded[1] = (b - 1) + 128
           /\ Len(encoded) = 1 + CeilDiv(b * n, 8)
           /\ \A k \in 1..Len(encoded) : encoded[k] \in 0..255
           /\ \A g \in 0..(8 * (Len(encoded) - 1) - 1) :
                 (Shr(encoded[g \div 8 + 2], 7 - (g % 8)) % 2 = 1) <=>
                     (g < b * n /\ (b - 1 - (g % b)) \in numbers[g \div b + 1])
           /\ padding = (8 - ((b * n) % 8)) % 8
           /\ padding = 8 * (Len(encoded) - 1) - b * n

C26_Witness ==
    /\ pc = "encoded"
    /\ numbers = BPExample
    /\ encoded = <<130, 5, 57, 119>>
    /\ padding = 0

(***************************************************************************)
(* pforencoder.py (values and 32-bit words are Bigs).                      *)
(***************************************************************************)
POSSIBLES_B == 1..32
HEADER_SIZE == 32
B_HEADER_SIZE == 5

estimate_encoded_size(nums, b) ==
    LET max_number == BigMask(b)
        exception_count == Cardinality({i \in 1..Len(nums) : BigGt(nums[i], max_number)})
    IN HEADER_SIZE + Len(nums) * b + exception_count * 32

\* __find_optimal_b with "current_size <= optimal_size": the last b of the
\* smallest estimated size.
find_optimal_b_last(nums) ==
    CHOOSE b \in POSSIBLES_B : \A c \in POSSIBLES_B :
        \/ estimate_encoded_size(nums, b) < estimate_encoded_size(nums, c)
        \/ estimate_encoded_size(nums, b) = estimate_encoded_size(nums, c) /\ b >= c

\* __find_optimal_b, the loop over POSSIBLES_B[i], i from 1 (POSSIBLES_B[i]
\* is i + 1): a later b replaces the optimum only when strictly smaller.
RECURSIVE find_optimal_b_loop(_, _, _, _)
find_optimal_b_loop(nums, i, optimal_b, optimal_size) ==
    IF i >= Cardinality(POSSIBLES_B) THEN optimal_b
    ELSE LET current_b == i + 1
             current_size == estimate_encoded_size(nums, current_b)
         IN IF current_size < optimal_size
            THEN find_optimal_b_loop(nums, i + 1, current_b, current_size)
            ELSE find_optimal_b_loop(nums, i + 1, optimal_b, optimal_size)

\* __find_optimal_b
find_optimal_b(nums) ==
    find_optimal_b_loop(nums, 1, 1, estimate_encoded_size(nums, 1))

\* encode, the loop over the numbers (i counts from 0).
RECURSIVE pfor_write_loop(_, _, _, _, _, _, _)
pfor_write_loop(nums, b, i, enc, off, exceptions_indexes, exceptions) ==
    IF i >= Len(nums)
    THEN [encoded |-> enc, offset |-> off,
          exceptions_indexes |-> exceptions_indexes, exceptions |-> exceptions]
    ELSE LET number == nums[i + 1]
             isexc == BigGt(number, BigMask(b))
             low == IF isexc THEN BigAnd(number, BigMask(b)) ELSE number
         IN pfor_write_loop(nums, b, i + 1,
                write_binary_in_iarray(enc, off, low, b).array, off + b,
                IF isexc THEN Append(exceptions_indexes, Big(i)) ELSE exceptions_indexes,
                IF isexc THEN Append(exceptions, BigShr(number, b)) ELSE exceptions)

\* encode, up to the end of the loop: the slots, the offset and the
\* exceptions for a given b.
pfor_write(nums, b) ==
    LET numbers_per_int == 32 \div b
        encoded_size == CeilDiv(Len(nums), numbers_per_int)
    IN pfor_write_loop(nums, b, 0, Rep({}, encoded_size), 0, <<>>, <<>>)

pfor_encode(nums) ==
    LET b == find_optimal_b(nums)
        w == pfor_write(nums, b)
        used_ints == CeilDiv(w.offset, 32)
        header == BigAdd(BigShl(Big(b - 1), 32 - B_HEADER_SIZE), Big(Len(w.exceptions)))
        exception_encode == s16_encode(w.exceptions_indexes \o w.exceptions)
    IN IF exception_encode.exc THEN Raise
       ELSE Ok(<<header>> \o SubSeq(w.encoded, 1, Min(used_ints, Len(w.encoded)))
                          \o exception_encode.val)

\* __get_header (an empty list has no element 0: IndexError in the caller).
pfor_get_header(enc) ==
    LET off == 32 - B_HEADER_SIZE
    IN <<IntOf(BigShr(enc[1], off)) + 1, IntOf(BigAnd(enc[1], BigMask(off)))>>

\* The words read by read_binary_from_iarray(arr, off, bits) exist.
Readable32(arr, off, bits) == bits <= 0 \/ (off >= 0 /\ off + bits <= 32 * Len(arr))

\* __merge_exceptions, the loop over the indexes (decoded[i] may not exist).
RECURSIVE pfor_merge_loop(_, _, _, _)
pfor_merge_loop(dec, exceptions_indexes, exceptions, b) ==
    IF exceptions_indexes = <<>> THEN Ok(dec)
    ELSE LET i == IntOf(Head(exceptions_indexes))
         IN IF i >= Len(dec) \/ exceptions = <<>> THEN Raise
            ELSE pfor_merge_loop(
                    [dec EXCEPT ![i + 1] = BigAdd(@, BigShl(Head(exceptions), b))],
                    Tail(exceptions_indexes), Tail(exceptions), b)

pfor_merge_exceptions(dec, exceptions, b) ==
    LET middle == Len(exceptions) \div 2
    IN pfor_merge_loop(dec, SubSeq(exceptions, 1, middle),
                       SubSeq(exceptions, middle + 1, Len(exceptions)), b)

RECURSIVE pfor_read_loop(_, _, _, _, _)
pfor_read_loop(enc, nums, off, b, acc) ==
    IF nums <= 0 THEN acc
    ELSE pfor_read_loop(enc, nums - 1, off + b, b,
                        Append(acc, read_binary_from_iarray(enc, off, b)))

pfor_decode(enc0, nums) ==
    IF enc0 = <<>> THEN Raise
    ELSE LET header == pfor_get_header(enc0)
             b == header[1]
             exceptions_count == header[2]
             enc == Tail(enc0)
             offset_end == IF nums > 0 THEN nums * b ELSE 0
         IN IF \E k \in 0..(nums - 1) : ~Readable32(enc, k * b, b) THEN Raise
            ELSE LET dec == pfor_read_loop(enc, nums, 0, b, <<>>)
                 IN IF exceptions_count > 0
                    THEN LET ints_readed == CeilDiv(offset_end, 32)
                             x == s16_decode(SubSeq(enc, ints_readed + 1, Len(enc)), TRUE)
                         IN IF x.exc THEN Raise
                            ELSE pfor_merge_exceptions(dec,
                                    SubSeq(x.val, 1, Min(Len(x.val), 2 * exceptions_count)), b)
                    ELSE Ok(dec)

(***************************************************************************)
(* SpecPFor: a list is encoded and decoded.                                *)
(***************************************************************************)
\* 0, 1, 3, 255, 2^28 + 1, 2^29, 2^32 - 1.
PForValues == {{}, {0}, {0, 1}, BigMask(8), {0, 28}, {29}, BigMask(32)}

\* [1, 1, 1, 1 << 20, 1, 1, 1]
PForExample == <<{0}, {0}, {0}, {20}, {0}, {0}, {0}>>

InitPFor ==
    /\ pc = "init"
    /\ numbers \in Lists(PForValues, MaxPForLen) \cup {PForExample}
    /\ codes = <<>> /\ encoded = <<>> /\ padding = 0 /\ decoded = <<>>
    /\ arg = <<>> /\ result = <<>>
    /\ BBAIdle /\ BitsIdle

\* encode; its locals b, exceptions_indexes and exceptions are kept in
\* result, also when the call raises.
PForEncode ==
    /\ pc = "init"
    /\ LET r == pfor_encode(numbers)
           b == find_optimal_b(numbers)
           w == pfor_write(numbers, b)
       IN /\ pc' = IF r.exc THEN "raised" ELSE "encoded"
          /\ encoded' = IF r.exc THEN encoded ELSE r.val
          /\ result' = <<b, w.exceptions_indexes, w.exceptions>>
    /\ UNCHANGED <<numbers, codes, padding, decoded, arg, bbaVars, bitsVars>>

PForDecode ==
    /\ pc = "encoded"
    /\ LET r == pfor_decode(encoded, Len(numbers))
       IN /\ pc' = IF r.exc THEN "raised" ELSE "decoded"
          /\ decoded' = IF r.exc THEN decoded ELSE r.val
    /\ UNCHANGED <<numbers, codes, encoded, padding, arg, result, bbaVars, bitsVars>>

NextPFor == PForEncode \/ PForDecode

SpecPFor == InitPFor /\ [][NextPFor]_vars

\* C2: every list of integers in [0, 2^32) is encoded and decoded back to
\* itself without a failure.
C2_PForRoundTrip ==
    /\ pc # "raised"
    /\ pc = "decoded" => decoded = numbers

\* C15: encode selects the b of 1..32 with the smallest estimated size
\* 32 + b*n + 32 * (number of values above 2^b - 1), the smallest such b
\* when several have it; for [1, 1, 1, 2^20, 1, 1, 1] this is b = 1 with
\* one exception, at index 3 with high part 2^19.
C15_PForChoiceOfB ==
    pc # "init" =>
        LET n == Len(numbers)
            size(c) == 32 + c * n
                       + 32 * Cardinality({i \in 1..n : \E k \in numbers[i] : k >= c})
            b == result[1]
        IN /\ b \in 1..32
           /\ \A c \in 1..32 : size(b) < size(c) \/ (size(b) = size(c) /\ b <= c)
           /\ numbers = PForExample =>
                 /\ b = 1
                 /\ result[2] = <<Big(3)>>
                 /\ result[3] = <<{19}>>

C15_Witness ==
    /\ pc = "encoded"
    /\ numbers = PForExample
    /\ result = <<1, <<{0, 1}>>, <<{19}>>>>

\* C16: for every list xs, encode(xs) is the stream
\* [header] ++ slots ++ simple16.encode(indices ++ highs): header is
\* ((b - 1) << 27) | count, so that b is (header >> 27) + 1 and count is
\* header & (2^27 - 1); slots has ceil(b*n/32) words and holds the low b
\* bits of value i at bit offset i*b counted from the most significant
\* bit; indices and highs list, in input order, every position i with
\* xs[i] > 2^b - 1 and its xs[i] >> b.
C16_PForLayout ==
    pc # "init" =>
        LET n == Len(numbers)
            b == result[1]
            isexc(i) == \E k \in numbers[i + 1] : k >= b
            indices == SelectSeq([i \in 1..n |-> i - 1], isexc)
            highs == [k \in 1..Len(indices) |->
                         {j - b : j \in {j \in numbers[indices[k] + 1] : j >= b}}]
            count == Len(indices)
            header == BigShl(Big(b - 1), 27) \cup Big(count)
            slots == [w \in 1..CeilDiv(b * n, 32) |->
                         {31 - (g % 32) :
                             g \in {g \in 0..(b * n - 1) :
                                       /\ g \div 32 = w - 1
                                       /\ (b - 1 - (g % b)) \in numbers[g \div b + 1]}}]
            block == s16_encode([k \in 1..count |-> Big(indices[k])] \o highs)
        IN /\ encoded # <<>>
           /\ ~block.exc
           /\ encoded = <<header>> \o slots \o block.val
           /\ IntOf(BigShr(encoded[1], 27)) + 1 = b
           /\ BigAnd(encoded[1], BigMask(27)) = Big(count)

(***************************************************************************)
(* eliasfanoencoder.py (numbers and bytes are integers).                   *)
(***************************************************************************)
BV_MASKS(i) == Pow2(7 - i)

\* sorted(xs)
RECURSIVE sorted(_)
sorted(xs) ==
    IF xs = <<>> THEN <<>>
    ELSE LET i == CHOOSE k \in 1..Len(xs) : \A j \in 1..Len(xs) : xs[k] <= xs[j]
         IN <<xs[i]>> \o sorted(SubSeq(xs, 1, i - 1) \o SubSeq(xs, i + 1, Len(xs)))

\* seq[i] of Python, i from -len to len - 1, as a position from 1; 0 is
\* an IndexError.
PyIndex(len, i) ==
    IF 0 <= i /\ i < len THEN i + 1
    ELSE IF i < 0 /\ -i <= len THEN len + i + 1
    ELSE 0

\* byte | BV_MASKS[bit_index]
OrMask(byte, bit_index) ==
    IF Shr(byte, 7 - bit_index) % 2 = 1 THEN byte ELSE byte + BV_MASKS(bit_index)

\* __delta_encode_since_min; numbers[0] and encoded[0] must exist.
delta_encode_since_min(nums) ==
    IF nums = <<>> THEN Raise
    ELSE LET enc == [i \in 1..(Len(nums) - 1) |-> nums[i + 1] - nums[1]]
             num1 == nums[1]
         IN IF num1 = 0 THEN Ok(<<0>> \o nums)
            ELSE IF Len(enc) = 0 THEN Raise
            ELSE LET fano_1st_number == Min(enc[1] - 1, num1 - 1)
                     vb_number == num1 - fano_1st_number
                 IN Ok(<<vb_number, fano_1st_number>> \o enc)

\* __delta_decode_since_min without the sum of the first two numbers.
delta_decode_since_min_raw(enc) ==
    IF Len(enc) < 2 THEN Raise
    ELSE LET num1 == enc[1]
         IN Ok(<<num1>> \o [i \in 1..(Len(enc) - 2) |-> num1 + enc[i + 2]])

\* __delta_decode_since_min; encoded[0] and encoded[1] must exist.
delta_decode_since_min(enc) ==
    IF Len(enc) < 2 THEN Raise
    ELSE LET num1 == enc[1] + enc[2]
         IN Ok(<<num1>> \o [i \in 1..(Len(enc) - 2) |-> num1 + enc[i + 2]])

RECURSIVE bv_encode_loop(_, _, _)
bv_encode_loop(enc, nums, i) ==
    IF i > Len(nums) THEN Ok(enc)
    ELSE LET array_index == PyIndex(Len(enc), Shr(nums[i], 3))
             bit_index == AndMask(nums[i], 3)
         IN IF array_index = 0 THEN Raise
            ELSE bv_encode_loop(
                    [enc EXCEPT ![array_index] = OrMask(@, bit_index)], nums, i + 1)

\* bytearray(n) raises for a negative n.
bv_encode(nums) ==
    IF nums = <<>> THEN Raise
    ELSE LET max_number == nums[Len(nums)]
             size == CeilDiv(max_number + 1, 8)
             p0 == 8 - AndMask(max_number + 1, 3)
             r == bv_encode_loop(Rep(0, size), nums, 1)
         IN IF size < 0 \/ r.exc THEN Raise
            ELSE Ok(<<r.val, IF p0 < 8 THEN p0 ELSE 0>>)

\* The bits of one byte from bit_index on, as numbers from number on.
bv_byte_numbers(byte, bit_index, number) ==
    LET S == {k \in bit_index..7 : Shr(byte, 7 - k) % 2 = 1}
        F[k \in bit_index..8] ==
            IF k = bit_index THEN <<>>
            ELSE IF (k - 1) \in S THEN Append(F[k - 1], number + (k - 1) - bit_index)
            ELSE F[k - 1]
    IN F[8]

RECURSIVE bv_decode_loop(_, _, _, _, _, _)
bv_decode_loop(enc, array_index, bit_index, number, max_number, acc) ==
    IF number >= max_number THEN Ok(acc)
    ELSE IF array_index >= Len(enc) THEN Raise
    ELSE IF enc[array_index + 1] = 255
         THEN bv_decode_loop(enc, array_index + 1, 0, number + 8, max_number,
                             acc \o [k \in 1..8 |-> number + k - 1])
         ELSE bv_decode_loop(enc, array_index + 1, 0, number + (8 - bit_index),
                             max_number,
                             acc \o bv_byte_numbers(enc[array_index + 1], bit_index, number))

bv_decode(enc, nums, off) ==
    LET array_index == Shr(off, 3)
        bit_index == AndMask(off, 3)
        rest == IF array_index < Len(enc) THEN Len(enc) - array_index ELSE 0
        r == bv_decode_loop(enc, array_index, bit_index, 0, rest * 8, <<>>)
    IN IF r.exc THEN Raise
       ELSE Ok(SubSeq(r.val, 1, Min(Len(r.val), nums)))

\* __encode_upper
ef_encode_upper(upper_numbers) ==
    LET g == gaps_encode(upper_numbers)
    IN IF g.exc THEN Failed(BitByteArray)
       ELSE LET us == [i \in 1..Len(g.val) |-> unary_encode(g.val[i], FALSE)]
            IN IF \E i \in 1..Len(us) : us[i].exc THEN Failed(BitByteArray)
               ELSE PackCodes(BitByteArray, [i \in 1..Len(us) |-> us[i].val])

\* __encode_lower
ef_encode_lower(lower_numbers, l) ==
    LET p0 == 8 - (l % 8)
        pad == IF p0 = 8 THEN 0 ELSE p0
    IN PackCodes(BitByteArray,
                 [i \in 1..Len(lower_numbers) |->
                     <<to_bytes(CeilDiv(l, 8), Shl(lower_numbers[i], pad)), pad>>])

\* __merge_encodes
ef_merge_encodes(l, lower_encode, upper_encode) ==
    LET r == bba_extend(lower_encode, upper_encode.stream, bba_padding(upper_encode))
    IN IF r.exc THEN Raise
       ELSE Ok(<<to_byte(l) \o r.self.stream, bba_padding(r.self)>>)

\* The exact ceiling of log2(max_number / list_size), for a quotient of at
\* least 1: the least l with list_size * 2^l >= max_number.
RECURSIVE CeilLog2(_, _, _)
CeilLog2(max_number, list_size, l) ==
    IF list_size * Pow2(l) >= max_number THEN l
    ELSE CeilLog2(max_number, list_size, l + 1)

\* l = int(math.ceil(math.log(max_number / list_size, 2))) in floating
\* point: math.log(2.0 ** 29, 2) is 29.000000000000004, so a quotient of
\* exactly 2^29 gives 30; every other quotient below 2^31 gives the exact
\* ceiling.
ef_l(max_number, list_size) ==
    IF max_number % list_size = 0 /\ max_number \div list_size = Pow2(29)
    THEN 30
    ELSE CeilLog2(max_number, list_size, 0)

ef_encode(nums) ==
    IF Len(nums) = 1 THEN Ok(<<vb_encode(nums[1]), 0>>)
    ELSE LET d == delta_encode_since_min(sorted(nums))
         IN IF d.exc THEN Raise
            ELSE LET first_number == Head(d.val)
                     ns == Tail(d.val)
                     max_number == ns[Len(ns)]
                     list_size == Len(ns)
                 IN IF list_size > Shr(max_number, 2)
                    THEN LET bv == bv_encode(ns)
                         IN IF bv.exc THEN Raise
                            ELSE Ok(<<vb_encode(first_number) \o <<255>> \o bv.val[1],
                                      bv.val[2]>>)
                    ELSE LET l == ef_l(max_number, list_size)
                             lower_numbers == [i \in 1..Len(ns) |-> AndMask(ns[i], l)]
                             upper_numbers ==
                                 [i \in 1..Len(ns) |-> Shr(ns[i] - lower_numbers[i], l)]
                             upper_encode == ef_encode_upper(upper_numbers)
                             lower_encode == ef_encode_lower(lower_numbers, l)
                         IN IF upper_encode.exc \/ lower_encode.exc THEN Raise
                            ELSE LET mg == ef_merge_encodes(l, lower_encode.self,
                                                            upper_encode.self)
                                 IN IF mg.exc THEN Raise
                                    ELSE Ok(<<vb_encode(first_number) \o mg.val[1],
                                              mg.val[2]>>)

RECURSIVE ef_decode_loop(_, _, _, _, _, _, _)
ef_decode_loop(enc, nums, l, lower_offset, upper_offset, delta, acc) ==
    IF nums <= 0 THEN Ok(acc)
    ELSE IF ~Readable(enc, lower_offset, l) THEN Raise
    ELSE LET lower == IntOf(read_binary_from_barray(enc, lower_offset, l))
             u == unary_decode(enc, 1, FALSE, upper_offset)
         IN IF u.exc THEN Raise
            ELSE LET upper == u.val[1]
                 IN ef_decode_loop(enc, nums - 1, l, lower_offset + l,
                                   upper_offset + upper + 1, delta + upper,
                                   Append(acc, Shl(delta + upper, l) + lower))

ef_decode(enc, nums) ==
    IF nums = 1 THEN Ok(vb_decode(enc))
    ELSE LET h == vb_decode_number(enc, 0)
             first_number == h[1]
             off == h[2]
         IN IF Shr(off, 3) >= Len(enc) THEN Raise
            ELSE LET l == enc[Shr(off, 3) + 1]
                     lower_offset == off + 8
                     upper_offset == off + 8 + l * nums
                 IN IF l = 255
                    THEN LET bv == bv_decode(enc, nums, off + 8)
                         IN IF bv.exc THEN Raise
                            ELSE delta_decode_since_min(<<first_number>> \o bv.val)
                    ELSE LET r == ef_decode_loop(enc, nums, l, lower_offset,
                                                 upper_offset, 0, <<first_number>>)
                         IN IF r.exc THEN Raise
                            ELSE delta_decode_since_min(r.val)

(***************************************************************************)
(* SpecEF: a non-empty non-decreasing list is encoded and decoded.         *)
(***************************************************************************)
EFValues == {0, 1, 2, 3, 5, 7, 8, 9, 16, 17, 100, 5000}

\* [0, 2 ** 30]: two values left after the prefix, quotient 2^29.
EFSparse == <<0, Pow2(30)>>

\* list(range(0, n))
RECURSIVE range(_)
range(n) == IF n <= 0 THEN <<>> ELSE Append(range(n - 1), n - 1)

EFDense == range(MaxEFRange)

InitEF ==
    /\ pc = "init"
    /\ numbers \in {xs \in Lists(EFValues, MaxEFLen) \ {<<>>} : NonDecreasing(xs)}
                   \cup {EFSparse, EFDense}
    /\ codes = <<>> /\ encoded = <<>> /\ padding = 0 /\ decoded = <<>>
    /\ arg = <<>> /\ result = <<>>
    /\ BBAIdle /\ BitsIdle

EFEncode ==
    /\ pc = "init"
    /\ LET r == ef_encode(numbers)
       IN /\ pc' = IF r.exc THEN "raised" ELSE "encoded"
          /\ encoded' = IF r.exc THEN encoded ELSE r.val[1]
          /\ padding' = IF r.exc THEN padding ELSE r.val[2]
    /\ UNCHANGED <<numbers, codes, decoded, arg, result, bbaVars, bitsVars>>

EFDecode ==
    /\ pc = "encoded"
    /\ LET r == ef_decode(encoded, Len(numbers))
       IN /\ pc' = IF r.exc THEN "raised" ELSE "decoded"
          /\ decoded' = IF r.exc THEN decoded ELSE r.val
    /\ UNCHANGED <<numbers, codes, encoded, padding, arg, result, bbaVars, bitsVars>>

NextEF == EFEncode \/ EFDecode

SpecEF == InitEF /\ [][NextEF]_vars

\* C1: every non-empty non-decreasing list, duplicates included, is
\* encoded and decoded back to itself without a failure.
C1_EFRoundTrip ==
    /\ pc # "raised"
    /\ pc = "decoded" => decoded = numbers

\* C23: a strictly increasing list of one or more values is encoded and
\* decoded back to itself without a failure, on the single-number, dense
\* and sparse paths; the preprocessed list is [0] ++ xs when xs[0] is 0 and
\* otherwise starts with vb_prefix and fano_first, where vb_prefix +
\* fano_first is xs[0] and 0 <= fano_first < xs[1] - xs[0].
C23_EFStrictRoundTrip ==
    (\A i \in 1..(Len(numbers) - 1) : numbers[i] < numbers[i + 1]) =>
        /\ pc # "raised"
        /\ pc = "decoded" => decoded = numbers
        /\ (pc # "init" /\ Len(numbers) = 1) => encoded = vb_encode(numbers[1])
        /\ (pc # "init" /\ Len(numbers) >= 2) =>
              LET d == delta_encode_since_min(numbers)
                  n == Len(numbers)
              IN /\ ~d.exc
                 /\ Len(d.val) = n + 1
                 /\ d.val[1] + d.val[2] = numbers[1]
                 /\ \A i \in 2..n : d.val[i + 1] = numbers[i] - numbers[1]
                 /\ numbers[1] = 0 => d.val = <<0>> \o numbers
                 /\ numbers[1] > 0 =>
                       /\ d.val[1] > 0
                       /\ 0 <= d.val[2] /\ d.val[2] < numbers[2] - numbers[1]
                 /\ vb_decode_number(encoded, 0)[1] = d.val[1]

\* The sparse path with a head above zero: [5, 100, 5000] is preprocessed to
\* [1, 4, 95, 4995].
C23_Witness ==
    /\ pc = "decoded"
    /\ numbers = <<5, 100, 5000>>
    /\ decoded = numbers
    /\ encoded[1] = 129 /\ encoded[2] \in 2..31

\* C14: in the frame of a list of two or more values, with m the number of
\* values left after the prefix was popped and M their maximum, the byte
\* after the VB prefix is 0xFF exactly when m > M/4, and is otherwise
\* ceil(log2(M/m)), a value of 2..31; a list range(0, n) takes the 0xFF
\* path.
C14_EFDensitySwitch ==
    (Len(numbers) >= 2 /\ encoded # <<>>) =>
        LET d == delta_encode_since_min(sorted(numbers))
            ns == Tail(d.val)
            m == Len(ns)
            M == ns[m]
            header == encoded[vb_decode_number(encoded, 0)[2] \div 8 + 1]
        IN /\ header = 255 <=> 4 * m > M
           /\ 4 * m <= M => /\ header = CeilLog2(M, m, 0)
                            /\ header \in 2..31
           /\ numbers = EFDense => header = 255

\* C27: the frame of a list of two or more values is VByte(vb_prefix), a
\* header byte and the body.  On the sparse path, with m coded values,
\* lower width l and last upper value U, the l low bits of value i sit at
\* bit offset 8 + i*l after the prefix, the unary codes of the upper gaps
\* start at 8 + l*m, and the padding p satisfies 8*len(frame) - p =
\* 8*len(VByte) + 8 + l*m + U + m.  On the dense path the body is the
\* characteristic vector of ceil((M+1)/8) bytes with bit k set exactly for
\* the coded values k, and p is (8 - (M+1) mod 8) mod 8.  The frame of a
\* single value has padding 0.  Padding bits are zero.
C27_EFFrameLayout ==
    /\ (pc # "init" /\ Len(numbers) = 1) =>
          (encoded = vb_encode(numbers[1]) /\ padding = 0)
    /\ (pc # "init" /\ Len(numbers) >= 2) =>
          LET d == delta_encode_since_min(sorted(numbers))
              ns == Tail(d.val)
              m == Len(ns)
              M == ns[m]
              vb == vb_encode(d.val[1])
              v == Len(vb)
              T == 8 * (Len(encoded) - v)
              FrameBit(g) == Shr(encoded[v + (g \div 8) + 1], 7 - (g % 8)) % 2
              l == encoded[v + 1]
              u(i) == Shr(ns[i], l)
              U == u(m)
          IN /\ Len(encoded) > v
             /\ SubSeq(encoded, 1, v) = vb
             /\ padding \in 0..7
             /\ \A g \in (T - padding)..(T - 1) : FrameBit(g) = 0
             /\ IF 4 * m > M
                THEN /\ l = 255
                     /\ Len(encoded) = v + 1 + CeilDiv(M + 1, 8)
                     /\ \A k \in 0..(T - 9) :
                           FrameBit(8 + k) = 1 <=> \E i \in 1..m : ns[i] = k
                     /\ padding = (8 - ((M + 1) % 8)) % 8
                ELSE /\ l \in 0..32
                     /\ \A i \in 1..m : \A j \in 0..(l - 1) :
                           FrameBit(8 + (i - 1) * l + j) = Shr(ns[i], l - 1 - j) % 2
                     /\ \A t \in 0..(U + m - 1) :
                           FrameBit(8 + l * m + t) = 0 <=>
                               \E i \in 1..m : t = u(i) + (i - 1)
                     /\ T - padding = 8 + l * m + U + m

(***************************************************************************)
(* SpecEFCount: the frame of a list is decoded with any declared count,    *)
(* the length of the list or another one.  The values are small enough for *)
(* the numbers read from a frame taken as a VB stream to stay below 2^31.  *)
(***************************************************************************)
InitEFCount ==
    /\ pc = "init"
    /\ numbers \in {xs \in Lists(EFValues \ {5000}, MaxEFLen) \ {<<>>} :
                       NonDecreasing(xs)} \cup {EFDense}
    /\ codes = <<>> /\ encoded = <<>> /\ padding = 0 /\ decoded = <<>>
    /\ arg = <<>> /\ result = <<>>
    /\ BBAIdle /\ BitsIdle

EFDecodeCount ==
    /\ pc = "encoded"
    /\ \E count \in 1..(Len(numbers) + MaxEFExtra) :
          LET r == ef_decode(encoded, count)
          IN /\ arg' = <<count>>
             /\ pc' = IF r.exc THEN "raised" ELSE "counted"
             /\ decoded' = IF r.exc THEN decoded ELSE r.val
    /\ UNCHANGED <<numbers, codes, encoded, padding, result, bbaVars, bitsVars>>

NextEFCount == EFEncode \/ EFDecodeCount

SpecEFCount == InitEFCount /\ [][NextEFCount]_vars

\* C24: decode(encoded, count) returns a list of exactly count integers or
\* fails; with a count that does not fit the frame it does not return a
\* list of another length.
C24_EFDeclaredCount ==
    pc = "counted" => Len(decoded) = arg[1]

(***************************************************************************)
(* SpecBits: fields written one after the other into a zero-initialised    *)
(* array of 8-bit or 32-bit words, the first at any offset inside the      *)
(* first word, each with any width 1..32.                                  *)
(***************************************************************************)
write(w, arr, off, number, bits) ==
    IF w = 8 THEN write_binary_in_barray(arr, off, number, bits)
             ELSE write_binary_in_iarray(arr, off, number, bits)

read(w, arr, off, bits) ==
    IF w = 8 THEN read_binary_from_barray(arr, off, bits)
             ELSE read_binary_from_iarray(arr, off, bits)

Zero(w) == IF w = 8 THEN 0 ELSE {}

\* Values of a given width: zero, all ones, the top and the low bit, the low bit.
FieldValues(bits) == {{}, BigMask(bits), {0, bits - 1}, {0}}

\* Widths of the fields that follow the first one.
FollowBits == {1, 9, 32}

\* Words needed for MaxFields fields of 32 bits after the largest first offset.
ArrayLen(w) == IF w = 8 THEN CeilDiv(MaxStart8 + 1 + 32 * MaxFields, 8)
                        ELSE CeilDiv(MaxStart32 + 1 + 32 * MaxFields, 32)

InitBits ==
    /\ pc = "bits"
    /\ width \in {8, 32}
    /\ array = Rep(Zero(width), ArrayLen(width))
    /\ offset \in 0..(IF width = 8 THEN MaxStart8 ELSE MaxStart32)
    /\ fields = <<>>
    /\ CodecIdle /\ BBAIdle

WriteField(bits, number) ==
    /\ pc = "bits"
    /\ Len(fields) < MaxFields
    /\ offset + bits <= width * Len(array)
    /\ LET r == write(width, array, offset, number, bits)
       IN /\ array' = r.array
          /\ offset' = r.offset
          /\ fields' = Append(fields, [offset |-> offset, bits |-> bits,
                                       number |-> number])
    /\ UNCHANGED <<pc, width, codecVars, bbaVars>>

WriteFirst ==
    /\ fields = <<>>
    /\ \E bits \in 1..32 : \E number \in FieldValues(bits) : WriteField(bits, number)

WriteNext ==
    /\ fields # <<>>
    /\ \E bits \in FollowBits : \E number \in FieldValues(bits) : WriteField(bits, number)

NextBits == WriteFirst \/ WriteNext

SpecBits == InitBits /\ [][NextBits]_vars

\* C10: every write returns offset + bits, and every field written so far
\* reads back its own value, for both word widths.
C10_WriteReadRoundTrip ==
    pc = "bits" =>
        /\ \A i \in 1..Len(fields) :
              read(width, array, fields[i].offset, fields[i].bits) = fields[i].number
        /\ fields # <<>> =>
              offset = fields[Len(fields)].offset + fields[Len(fields)].bits

\* A 32-bit field straddling two words and a 32-bit field over five bytes,
\* each followed by another field.
C10_Witness ==
    /\ pc = "bits"
    /\ Len(fields) = 2
    /\ fields[1].bits = 32
    /\ fields[1].number = BigMask(32)
    /\ fields[1].offset % width # 0

\* C25: a write of a value below 2^bits onto zero bits changes only the bits
\* [offset, offset + bits): after any number of writes every bit of the
\* array inside a written field is the bit of that field's value and every
\* other bit is still zero, so no sum carries into a neighbouring field;
\* every byte stays <= 255 and every 32-bit word below 2^32.
C25_WriteFrame ==
    pc = "bits" =>
        LET ArrayBit(g) == IF width = 8
                           THEN Shr(array[g \div 8 + 1], 7 - (g % 8)) % 2 = 1
                           ELSE (31 - (g % 32)) \in array[g \div 32 + 1]
            InField(g, f) == f.offset <= g /\ g < f.offset + f.bits
            FieldBit(g, f) == (f.bits - 1 - (g - f.offset)) \in f.number
        IN /\ \A k \in 1..Len(array) :
                 IF width = 8 THEN array[k] \in 0..255 ELSE array[k] \subseteq 0..31
           /\ \A g \in 0..(width * Len(array) - 1) :
                 ArrayBit(g) <=>
                     \E i \in 1..Len(fields) :
                         InField(g, fields[i]) /\ FieldBit(g, fields[i])

\* Two bits written at offset 3 of a byte array and nine bits right after
\* them: 000 11 111 | 111111 00.
C25_Witness ==
    /\ pc = "bits" /\ width = 8
    /\ Len(fields) = 2
    /\ fields[1] = [offset |-> 3, bits |-> 2, number |-> {0, 1}]
    /\ fields[2] = [offset |-> 5, bits |-> 9, number |-> BigMask(9)]
    /\ array[1] = 31 /\ array[2] = 252

====
